---- MODULE Spec2Model ----
(***************************************************************************)
(* Our Journal: local-first persistence and Google Drive synchronisation.  *)
(*                                                                         *)
(* StorageService (src/src/services/storage.ts) writes every unit to       *)
(* AsyncStorage and mirrors it to GoogleDriveService                       *)
(* (src/src/services/googleDrive.ts) when a token is present.  The entries *)
(* store (src/src/stores/entriesStore.ts) keeps the daily entries in       *)
(* memory and flushes them, grouped by month, to AsyncStorage.             *)
(*                                                                         *)
(* Every `await` of the TypeScript code is a step of the model: a call     *)
(* sits at the await it is suspended on (its pc) and the action that       *)
(* completes the awaited request runs the continuation up to the next      *)
(* await.  Strings the code takes apart (file names, storage keys) are     *)
(* sequences of tokens; JSON text is a tagged value that parsing unwraps   *)
(* and that may also be unparseable.                                       *)
(***************************************************************************)
EXTENDS Integers, Sequences, FiniteSets, TLC

----------------------------------------------------------------------------
(* Bounds of the model *)

\* StorageService calls started in one run
MaxCalls == 2
\* mutating calls on the entries store in one run (the clock they stamp)
MaxEdits == 2
\* AsyncStorage requests of the entries store that may be outstanding
MaxPending == 2
\* versions (lastModified stamps) a settings or month unit can carry
MaxVer == 2
\* months 2025-01 .. 2025-MaxMonth that callers save and load
MaxMonth == 2
\* folder resolutions of GoogleDriveService that may be in flight together
MaxOps == 2

----------------------------------------------------------------------------
(* Values *)

\* JavaScript null / undefined: a missing item, a missing file id, no memo
Null == [null |-> TRUE]
\* setOnlineMode(null)
NullToken == "null"
\* setOnlineMode(''): a string that is not null and is falsy
EmptyToken == ""
\* `!!token`, `!this.accessToken`: null and the empty string are falsy
TruthyToken(token) == token \notin {NullToken, EmptyToken}
\* access tokens, one Drive account each
Tokens == {"t1", "t2"}

\* a literal piece of a string
Lit(s) == [lit |-> s]
\* the text yyyy-MM, four digits, a dash, two digits
MonthTok(y, m) == [y |-> y, m |-> m]
\* the month strings callers pass (format(date, 'yyyy-MM'))
Months == { <<MonthTok(2025, m)>> : m \in 1..MaxMonth }

\* an AppSettings value
Settings(v) == [members |-> [i \in 1..(v - 1) |-> "m1"], lastModified |-> v]
SettingsVals == { Settings(v) : v \in 1..MaxVer }

\* a MonthlyEntries value of month `month`
Partition(month, v) ==
    [month |-> month,
     entries |-> [i \in 1..(v - 1) |->
                    [date |-> [y |-> month[1].y, m |-> month[1].m, d |-> i],
                     memberId |-> "m1",
                     sectionEntries |-> << >>,
                     lastModified |-> v]],
     lastModified |-> v]
PartitionVals == { Partition(month, v) : month \in Months, v \in 1..MaxVer }

\* JSON.stringify of a value
JSONstringify(v) == [kind |-> "json", val |-> v]
\* text that is not JSON (a truncated or foreign file)
Garbage == [kind |-> "garbage"]
\* JSON.parse throws a SyntaxError on text that is not JSON
CanParse(text) == text.kind = "json"
JSONparse(text) == text.val
\* `if (driveData)`: the parsed JSON text `null` is falsy, an object is truthy
Truthy(v) == v # Null

----------------------------------------------------------------------------
(* Storage keys and file names *)

AppSettingsKey == << Lit("app_settings") >>
EntriesKey(month) == << Lit("entries_") >> \o month
StartsWithEntries(k) == Len(k) > 0 /\ k[1] = Lit("entries_")

APP_FOLDER_NAME == "OurJournal"
ENTRIES_FOLDER_NAME == "entries"
SettingsFileName == << Lit("settings"), Lit(".json") >>
MonthFileName(month) == month \o << Lit(".json") >>

\* name.replace('.json', ''): removes the first occurrence only
ReplaceJson(name) ==
    LET hits == { i \in 1..Len(name) : name[i] = Lit(".json") }
    IN  IF hits = {} THEN name
        ELSE LET i == CHOOSE j \in hits : \A k \in hits : j <= k
             IN  SubSeq(name, 1, i - 1) \o SubSeq(name, i + 1, Len(name))

\* /^\d{4}-\d{2}$/.test(name)
MatchesMonthPattern(name) ==
    /\ Len(name) = 1
    /\ DOMAIN name[1] = {"y", "m"}
    /\ name[1].y \in 0..9999
    /\ name[1].m \in 0..99

\* all orders in which the elements of a finite set can be enumerated
Orderings(S) ==
    { s \in [1..Cardinality(S) -> S] : \A i, j \in DOMAIN s : i # j => s[i] # s[j] }

----------------------------------------------------------------------------
(* State *)

VARIABLES
    asyncStorage,     \* AsyncStorage: the keys present and their text
    isOnline,         \* StorageService.isOnline
    accessToken,      \* StorageService.accessToken
    driveToken,       \* GoogleDriveService.accessToken
    appFolderId,      \* GoogleDriveService.appFolderId (memo)
    entriesFolderId,  \* GoogleDriveService.entriesFolderId (memo)
    folders,          \* Drive: the folders that exist, of every account
    files,            \* Drive: the files that exist and their content
    call,             \* the StorageService call in flight and its position
    entries,          \* entries store: the Map of DailyEntry, in insertion order
    isLoading,        \* entries store: isLoading
    currentDate,      \* entries store: currentDate
    pending,          \* entries store: its AsyncStorage requests not yet settled
    clock,            \* new Date(): the number of mutating calls so far
    ncalls,           \* the number of StorageService calls started
    members,          \* settings store: members
    lastModified,     \* settings store: lastModified
    issued,           \* Crypto.randomUUID(): the number of ids generated so far
    unhandled,        \* a promise of a store was rejected with no handler
    ops,              \* GoogleDriveService: its folder resolutions in flight
    scheduledNotifications  \* expo-notifications: what is scheduled

vars == << asyncStorage, isOnline, accessToken, driveToken, appFolderId,
           entriesFolderId, folders, files, call,
           entries, isLoading, currentDate, pending, clock, ncalls,
           members, lastModified, issued, unhandled, ops,
           scheduledNotifications >>

storeVars == << entries, isLoading, currentDate, pending, clock,
               members, lastModified, issued, unhandled, ops,
           scheduledNotifications >>

storageVars == << asyncStorage, isOnline, accessToken, driveToken, appFolderId,
                  entriesFolderId, folders, files, call, ncalls, members,
                  lastModified, issued, unhandled, ops,
           scheduledNotifications >>

\* AsyncStorage.getItem resolves to null for a missing key
GetItem(store, k) == IF k \in DOMAIN store THEN store[k] ELSE Null
\* AsyncStorage.setItem
SetItem(store, k, text) ==
    [x \in (DOMAIN store) \cup {k} |-> IF x = k THEN text ELSE store[x]]

\* a Drive folder; n tells apart folders of the same name and parent
Folder(acct, name, parent, n) ==
    [acct |-> acct, name |-> name, parent |-> parent, n |-> n]
\* a Drive file is identified by its folder and name
FileId(parent, name) == [parent |-> parent, name |-> name]

\* the call record of a StorageService method that has not started
IdleCall ==
    [kind |-> "idle", arg |-> Null, pc |-> "idle",
     stage |-> "none",      \* syncToCloud / syncFromCloud: settings, list, months
     key |-> << >>,         \* key of the pending AsyncStorage request
     text |-> Null,         \* text to write or upload
     todo |-> << >>,        \* the keys / months the loop still has to visit
     dop |-> "none",        \* the GoogleDriveService method running: save, load, list
     scope |-> "none",      \* the folder that method needs: app or entries
     name |-> << >>,        \* the file name it works on
     cred |-> NullToken,    \* the Authorization the pending request was sent with
     appf |-> Null,         \* ensureEntriesFolder: const appFolderId
     folder |-> Null,       \* the parent folder id of the pending request
     fileId |-> Null,       \* findFile's result
     got |-> Null,          \* the value the Drive load returned
     result |-> [st |-> "none", val |-> Null],
     \* history of this call
     wrote |-> FALSE,       \* the local write of a save has completed
     lfail |-> FALSE,       \* an AsyncStorage write of this call failed
     rsent |-> FALSE,       \* a request to Drive was sent by this call
     rfail |-> FALSE,       \* a Drive request of this call failed
     remote |-> FALSE,      \* a GoogleDriveService method was called by this call
     nofile |-> FALSE,      \* findFile found no file for a Drive load
     garbled |-> FALSE,     \* a downloaded file of this call was not JSON
     unauth |-> FALSE,      \* Drive answered a request of this call with 401
     rot |-> FALSE,         \* setOnlineMode ran while this call was in flight
     online0 |-> FALSE,     \* isOnline when the call read it
     tried |-> {},          \* syncToCloud: keys whose Drive save was started
     written |-> {},        \* the AsyncStorage keys this call has written
     \* the partition the call before this one saved, when that call was a
     \* saveMonthlyEntries in offline mode that returned
     saved |-> Null]

InFlight(c) == c.pc \notin {"idle", "done"}

\* a StorageService method may be called: none is in flight
CanCall == ~InFlight(call) /\ ncalls < MaxCalls

\* a call begins: a fresh record
NewCall(kind, arg) ==
    [IdleCall EXCEPT !.kind = kind, !.arg = arg,
                     !.saved = IF /\ call.kind = "saveMonthlyEntries"
                                  /\ call.result.st = "returned"
                                  /\ ~call.online0
                               THEN call.arg ELSE Null]

\* the call settles: returned (with a value) or threw
Done(c, st, val) ==
    [IdleCall EXCEPT !.kind = c.kind, !.arg = c.arg, !.pc = "done",
                     !.key = c.key,
                     !.result = [st |-> st, val |-> val],
                     !.got = c.got, !.wrote = c.wrote, !.lfail = c.lfail,
                     !.rsent = c.rsent, !.rfail = c.rfail, !.rot = c.rot,
                     !.remote = c.remote, !.nofile = c.nofile, !.saved = c.saved,
                     !.garbled = c.garbled, !.unauth = c.unauth,
                     !.online0 = c.online0, !.tried = c.tried,
                     !.written = c.written]

\* request(): throws 'Not authenticated' without a token, else sends the
\* request with the token held now; the call is then suspended at pc
Send(c, pc, tok) ==
    [c EXCEPT !.pc = pc, !.cred = tok, !.rsent = @ \/ TruthyToken(tok)]

\* ensureAppFolder / ensureEntriesFolder returned `id`: the request that follows
AfterFolder(c, id, tok) ==
    Send([c EXCEPT !.folder = id],
         IF c.dop = "list" THEN "list" ELSE "findFile", tok)

\* a GoogleDriveService method is called: the synchronous part up to its
\* first request (the memo checks of ensureAppFolder / ensureEntriesFolder)
BeginDrive(c, dop, scope, name, text, tok, appId, entId) ==
    LET c1 == [c EXCEPT !.dop = dop, !.scope = scope, !.name = name,
                        !.text = text, !.appf = Null, !.folder = Null,
                        !.fileId = Null, !.remote = TRUE]
    IN  IF scope = "app"
        THEN IF appId # Null THEN AfterFolder(c1, appId, tok)
             ELSE Send(c1, "appSearch", tok)
        ELSE IF entId # Null THEN AfterFolder(c1, entId, tok)
             ELSE IF appId # Null
                  THEN Send([c1 EXCEPT !.appf = appId], "entSearch", tok)
                  ELSE Send(c1, "appSearch", tok)

----------------------------------------------------------------------------
(* StorageService: what follows a GoogleDriveService method *)

IsSave(c) == c.kind \in {"saveSettings", "saveMonthlyEntries"}
IsLoad(c) == c.kind \in {"loadSettings", "loadMonthlyEntries"}

\* (mutant) the catch around the Drive save rethrows
SaveAfterDriveRethrows(c, ok) ==
    IF ok THEN Done(c, "returned", Null) ELSE Done(c, "threw", Null)

\* saveSettings / saveMonthlyEntries after the Drive save settled:
\* `catch (error) { console.error(...) }` swallows a failure
SaveAfterDrive(c, ok) == Done(c, "returned", Null)

\* (mutant) the Drive value is returned without updating the local cache
LoadAfterDriveNoCache(c, val) ==
    IF Truthy(val)
    THEN Done([c EXCEPT !.got = val], "returned", val)
    ELSE [c EXCEPT !.pc = "getItem"]

\* (mutant) no fallback to the local cache when Drive has nothing
LoadAfterDriveNoFallback(c, val) ==
    IF Truthy(val)
    THEN [c EXCEPT !.pc = "setItem", !.text = JSONstringify(val), !.got = val]
    ELSE Done(c, "returned", Null)

\* loadSettings / loadMonthlyEntries after the Drive load returned val:
\* a truthy value is written to the cache, else the local fallback is read
LoadAfterDrive(c, val) ==
    IF Truthy(val)
    THEN [c EXCEPT !.pc = "setItem", !.text = JSONstringify(val), !.got = val]
    ELSE [c EXCEPT !.pc = "getItem"]

\* syncToCloud: `for (const key of entryKeys)`, the next getItem
ToCloudLoop(c) ==
    IF c.todo = << >> THEN Done(c, "returned", Null)
    ELSE [c EXCEPT !.pc = "getItem", !.key = Head(c.todo), !.stage = "months"]

\* (mutant) syncToCloud goes on to the next unit after a failed Drive save
ToCloudAfterDriveContinues(c, ok) ==
    IF c.stage = "settings" THEN [c EXCEPT !.pc = "getAllKeys"]
    ELSE ToCloudLoop([c EXCEPT !.todo = Tail(@)])

\* syncToCloud after a Drive save settled: a failure leaves the try block
ToCloudAfterDrive(c, ok) ==
    IF ~ok THEN Done(c, "threw", Null)
    ELSE IF c.stage = "settings" THEN [c EXCEPT !.pc = "getAllKeys"]
    ELSE ToCloudLoop([c EXCEPT !.todo = Tail(@)])

\* syncFromCloud: `for (const month of months)`, the next Drive load
FromCloudLoop(c, tok, appId, entId) ==
    IF c.todo = << >> THEN Done(c, "returned", Null)
    ELSE BeginDrive([c EXCEPT !.stage = "months"], "load", "entries",
                    MonthFileName(Head(c.todo)), Null, tok, appId, entId)

\* syncFromCloud after a Drive load or list returned val
FromCloudAfterDrive(c, val, tok, appId, entId) ==
    CASE c.stage = "settings" ->
           IF Truthy(val)
           THEN [c EXCEPT !.pc = "setItem", !.key = AppSettingsKey,
                          !.text = JSONstringify(val)]
           ELSE BeginDrive([c EXCEPT !.stage = "list"], "list", "entries",
                           << >>, Null, tok, appId, entId)
      [] c.stage = "list" ->
           FromCloudLoop([c EXCEPT !.todo = val], tok, appId, entId)
      [] OTHER ->
           IF Truthy(val)
           THEN [c EXCEPT !.pc = "setItem", !.key = EntriesKey(Head(c.todo)),
                          !.text = JSONstringify(val)]
           ELSE FromCloudLoop([c EXCEPT !.todo = Tail(@)], tok, appId, entId)

\* the GoogleDriveService method of call c settled: ok with value val, or
\* (a save only) rejected
AfterDrive(c, ok, val, tok, appId, entId) ==
    CASE IsSave(c) -> SaveAfterDrive(c, ok)
      [] IsLoad(c) -> LoadAfterDrive(c, val)
      [] c.kind = "syncToCloud" -> ToCloudAfterDrive(c, ok)
      [] OTHER -> FromCloudAfterDrive(c, val, tok, appId, entId)

\* a request of the running GoogleDriveService method was rejected:
\* saveSettings / saveMonthlyEntries let it through, loadSettings /
\* loadMonthlyEntries catch it and return null, listMonthlyEntryFiles [] 
DriveThrow(c, tok, appId, entId) ==
    LET c1 == [c EXCEPT !.rfail = TRUE]
    IN  CASE c.dop = "save" -> AfterDrive(c1, FALSE, Null, tok, appId, entId)
          [] c.dop = "load" -> AfterDrive(c1, TRUE, Null, tok, appId, entId)
          [] OTHER -> AfterDrive(c1, TRUE, << >>, tok, appId, entId)

----------------------------------------------------------------------------
(* StorageService: the calls *)

\* (mutant) the token is not handed to GoogleDriveService
SetOnlineModeAdapterKept(token) ==
    /\ accessToken' = token
    /\ isOnline' = TruthyToken(token)
    /\ call' = [call EXCEPT !.rot = @ \/ InFlight(call)]
    /\ UNCHANGED << asyncStorage, driveToken, appFolderId, entriesFolderId,
                    folders, files, storeVars, ncalls >>

\* setOnlineMode(token), and GoogleDriveService.setAccessToken through it
SetOnlineMode(token) ==
    /\ accessToken' = token
    /\ isOnline' = TruthyToken(token)
    /\ driveToken' = token
    /\ appFolderId' = Null
    /\ entriesFolderId' = Null
    /\ call' = [call EXCEPT !.rot = @ \/ InFlight(call)]
    /\ UNCHANGED << asyncStorage, folders, files, storeVars, ncalls >>

\* saveSettings(settings) up to `await AsyncStorage.setItem`
SaveSettings(settings) ==
    /\ CanCall
    /\ ncalls' = ncalls + 1
    /\ call' = [NewCall("saveSettings", settings) EXCEPT
                   !.pc = "setItem", !.key = AppSettingsKey,
                   !.text = JSONstringify(settings)]
    /\ UNCHANGED << asyncStorage, isOnline, accessToken, driveToken, appFolderId,
                    entriesFolderId, folders, files, storeVars >>

\* saveMonthlyEntries(data) up to `await AsyncStorage.setItem`
SaveMonthlyEntries(data) ==
    /\ CanCall
    /\ ncalls' = ncalls + 1
    /\ call' = [NewCall("saveMonthlyEntries", data) EXCEPT
                   !.pc = "setItem", !.key = EntriesKey(data.month),
                   !.text = JSONstringify(data)]
    /\ UNCHANGED << asyncStorage, isOnline, accessToken, driveToken, appFolderId,
                    entriesFolderId, folders, files, storeVars >>

\* loadSettings() up to its first await
LoadSettings ==
    /\ CanCall
    /\ ncalls' = ncalls + 1
    /\ LET c == [NewCall("loadSettings", Null) EXCEPT
                    !.key = AppSettingsKey, !.online0 = isOnline]
       IN  call' = IF isOnline
                   THEN BeginDrive(c, "load", "app", SettingsFileName, Null,
                                   driveToken, appFolderId, entriesFolderId)
                   ELSE [c EXCEPT !.pc = "getItem"]
    /\ UNCHANGED << asyncStorage, isOnline, accessToken, driveToken, appFolderId,
                    entriesFolderId, folders, files, storeVars >>

\* loadMonthlyEntries(month) up to its first await
LoadMonthlyEntries(month) ==
    /\ CanCall
    /\ ncalls' = ncalls + 1
    /\ LET c == [NewCall("loadMonthlyEntries", month) EXCEPT
                    !.key = EntriesKey(month), !.online0 = isOnline]
       IN  call' = IF isOnline
                   THEN BeginDrive(c, "load", "entries", MonthFileName(month),
                                   Null, driveToken, appFolderId, entriesFolderId)
                   ELSE [c EXCEPT !.pc = "getItem"]
    /\ UNCHANGED << asyncStorage, isOnline, accessToken, driveToken, appFolderId,
                    entriesFolderId, folders, files, storeVars >>

\* syncToCloud() up to `await AsyncStorage.getItem('app_settings')`
SyncToCloud ==
    /\ CanCall
    /\ ncalls' = ncalls + 1
    /\ LET c == [NewCall("syncToCloud", Null) EXCEPT !.online0 = isOnline]
       IN  call' = IF ~isOnline THEN Done(c, "returned", Null)
                   ELSE [c EXCEPT !.pc = "getItem", !.key = AppSettingsKey,
                                  !.stage = "settings"]
    /\ UNCHANGED << asyncStorage, isOnline, accessToken, driveToken, appFolderId,
                    entriesFolderId, folders, files, storeVars >>

\* syncFromCloud() up to the first request of googleDriveService.loadSettings
SyncFromCloud ==
    /\ CanCall
    /\ ncalls' = ncalls + 1
    /\ LET c == [NewCall("syncFromCloud", Null) EXCEPT !.online0 = isOnline]
       IN  call' = IF ~isOnline THEN Done(c, "returned", Null)
                   ELSE BeginDrive([c EXCEPT !.stage = "settings"], "load", "app",
                                   SettingsFileName, Null,
                                   driveToken, appFolderId, entriesFolderId)
    /\ UNCHANGED << asyncStorage, isOnline, accessToken, driveToken, appFolderId,
                    entriesFolderId, folders, files, storeVars >>

----------------------------------------------------------------------------
(* StorageService: the awaited AsyncStorage requests settle *)

\* the continuation of a resolved `await AsyncStorage.setItem`
AfterSetItem(c, online, tok, appId, entId) ==
    CASE c.kind = "saveSettings" ->
           LET c1 == [c EXCEPT !.wrote = TRUE, !.online0 = online]
           IN  IF online
               THEN BeginDrive(c1, "save", "app", SettingsFileName, c.text,
                               tok, appId, entId)
               ELSE Done(c1, "returned", Null)
      [] c.kind = "saveMonthlyEntries" ->
           LET c1 == [c EXCEPT !.wrote = TRUE, !.online0 = online]
           IN  IF online
               THEN BeginDrive(c1, "save", "entries", MonthFileName(c.arg.month),
                               c.text, tok, appId, entId)
               ELSE Done(c1, "returned", Null)
      [] IsLoad(c) -> Done(c, "returned", c.got)
      [] OTHER ->  \* syncFromCloud
           IF c.stage = "settings"
           THEN BeginDrive([c EXCEPT !.stage = "list"], "list", "entries",
                           << >>, Null, tok, appId, entId)
           ELSE FromCloudLoop([c EXCEPT !.todo = Tail(@)], tok, appId, entId)

\* (mutant) a rejected local write of a save is swallowed like a remote one
SetItemFailedSwallowed(c) ==
    LET c1 == [c EXCEPT !.lfail = TRUE]
    IN  CASE IsSave(c) -> Done(c1, "returned", Null)
          [] IsLoad(c) -> [c1 EXCEPT !.pc = "getItem"]
          [] OTHER -> Done(c1, "threw", Null)

\* the continuation of a rejected `await AsyncStorage.setItem`: a save has
\* no handler around it, a load has it inside its try block, syncFromCloud
\* rethrows
SetItemFailed(c) ==
    LET c1 == [c EXCEPT !.lfail = TRUE]
    IN  CASE IsSave(c) -> Done(c1, "threw", Null)
          [] IsLoad(c) -> [c1 EXCEPT !.pc = "getItem"]
          [] OTHER -> Done(c1, "threw", Null)

LocalSetItemDone ==
    /\ call.pc = "setItem"
    /\ \/ /\ asyncStorage' = SetItem(asyncStorage, call.key, call.text)
          /\ call' = AfterSetItem([call EXCEPT !.written = @ \cup {call.key}],
                                  isOnline, driveToken, appFolderId,
                                  entriesFolderId)
       \/ /\ call' = SetItemFailed(call)
          /\ UNCHANGED asyncStorage
    /\ UNCHANGED << isOnline, accessToken, driveToken, appFolderId,
                    entriesFolderId, folders, files, storeVars, ncalls >>

\* (mutant) `local ? null : JSON.parse(local)`: the fallback branches swapped
AfterGetItemSwapped(c, item, tok, appId, entId) ==
    IF IsLoad(c) THEN Done(c, "returned", Null)
    ELSE Done(c, "threw", Null)

\* the continuation of `await AsyncStorage.getItem` that resolved to item
AfterGetItem(c, item, tok, appId, entId) ==
    CASE IsLoad(c) ->
           IF item = Null THEN Done(c, "returned", Null)
           ELSE IF CanParse(item) THEN Done(c, "returned", JSONparse(item))
           ELSE Done(c, "threw", Null)
      [] OTHER ->  \* syncToCloud
           IF item = Null
           THEN IF c.stage = "settings" THEN [c EXCEPT !.pc = "getAllKeys"]
                ELSE ToCloudLoop([c EXCEPT !.todo = Tail(@)])
           ELSE IF ~CanParse(item) THEN Done(c, "threw", Null)
           ELSE LET data == JSONparse(item)
                    c1 == [c EXCEPT !.tried = @ \cup {c.key}]
                IN  IF c.stage = "settings"
                    THEN BeginDrive(c1, "save", "app", SettingsFileName,
                                    JSONstringify(data), tok, appId, entId)
                    ELSE BeginDrive(c1, "save", "entries",
                                    MonthFileName(data.month),
                                    JSONstringify(data), tok, appId, entId)

LocalGetItemDone ==
    /\ call.pc = "getItem"
    /\ call' = AfterGetItem(call, GetItem(asyncStorage, call.key), driveToken,
                            appFolderId, entriesFolderId)
    /\ UNCHANGED << asyncStorage, isOnline, accessToken, driveToken, appFolderId,
                    entriesFolderId, folders, files, storeVars, ncalls >>

\* syncToCloud: `await AsyncStorage.getAllKeys()` and the filter on 'entries_'
LocalGetAllKeysDone ==
    /\ call.pc = "getAllKeys"
    /\ \E keys \in Orderings({ k \in DOMAIN asyncStorage : StartsWithEntries(k) }) :
          call' = ToCloudLoop([call EXCEPT !.todo = keys])
    /\ UNCHANGED << asyncStorage, isOnline, accessToken, driveToken, appFolderId,
                    entriesFolderId, folders, files, storeVars, ncalls >>

----------------------------------------------------------------------------
(* GoogleDriveService: the awaited requests settle.  A request sent       *)
(* without a token never left (request() threw); any other may fail.  An   *)
(* account sees only its own folders and files.                            *)

\* the folders a search `name='..' [and 'parent' in parents]` of cred finds
FindFolders(cred, name, parent) ==
    { f \in folders : /\ f.acct = cred
                      /\ f.name = name
                      /\ (parent # Null => f.parent = parent) }

\* the folder POST /files creates
NewFolder(cred, name, parent) ==
    Folder(cred, name, parent, 1 + Cardinality(FindFolders(cred, name, parent)))

\* findFile(name, parentId): files?.[0]?.id || null
FindFile(cred, name, parent) ==
    IF parent.acct = cred /\ FileId(parent, name) \in DOMAIN files
    THEN FileId(parent, name) ELSE Null

\* why request() throws: fetch rejects or the token is missing (line 27,
\* 30), or Drive answers 401 to an expired or revoked token (lines 38-41)
FailureCauses == {"unavailable", "unauthorized"}

\* a request of the pending call is rejected (network, HTTP error, no token)
RequestFails(pc) ==
    /\ call.pc = pc
    /\ \E cause \in FailureCauses :
          /\ cause = "unauthorized" => call.cred # NullToken
          /\ call' = DriveThrow([call EXCEPT !.unauth =
                                     @ \/ cause = "unauthorized"],
                                driveToken, appFolderId, entriesFolderId)
    /\ UNCHANGED << asyncStorage, isOnline, accessToken, driveToken, appFolderId,
                    entriesFolderId, folders, files, storeVars, ncalls >>

\* ensureAppFolder returned id: the next request of the method running
AfterAppFolder(c, id, tok) ==
    IF c.scope = "app" THEN AfterFolder(c, id, tok)
    ELSE Send([c EXCEPT !.appf = id], "entSearch", tok)

\* findOrCreateFolder(APP_FOLDER_NAME): the search answers
AppSearchResp ==
    /\ call.pc = "appSearch"
    /\ call.cred # NullToken
    /\ LET found == FindFolders(call.cred, APP_FOLDER_NAME, Null)
       IN  IF found # {}
           THEN \E f \in found :
                   /\ appFolderId' = f
                   /\ call' = AfterAppFolder(call, f, driveToken)
           ELSE /\ call' = Send(call, "appCreate", driveToken)
                /\ UNCHANGED appFolderId
    /\ UNCHANGED << asyncStorage, isOnline, accessToken, driveToken,
                    entriesFolderId, folders, files, storeVars, ncalls >>

\* findOrCreateFolder(APP_FOLDER_NAME): the create answers
AppCreateResp ==
    /\ call.pc = "appCreate"
    /\ call.cred # NullToken
    /\ LET f == NewFolder(call.cred, APP_FOLDER_NAME, Null)
       IN  /\ folders' = folders \cup {f}
           /\ appFolderId' = f
           /\ call' = AfterAppFolder(call, f, driveToken)
    /\ UNCHANGED << asyncStorage, isOnline, accessToken, driveToken,
                    entriesFolderId, files, storeVars, ncalls >>

\* findOrCreateFolder('entries', appFolderId): the search answers
EntSearchResp ==
    /\ call.pc = "entSearch"
    /\ call.cred # NullToken
    /\ LET found == FindFolders(call.cred, ENTRIES_FOLDER_NAME, call.appf)
       IN  IF found # {}
           THEN \E f \in found :
                   /\ entriesFolderId' = f
                   /\ call' = AfterFolder(call, f, driveToken)
           ELSE /\ call' = Send(call, "entCreate", driveToken)
                /\ UNCHANGED entriesFolderId
    /\ UNCHANGED << asyncStorage, isOnline, accessToken, driveToken,
                    appFolderId, folders, files, storeVars, ncalls >>

\* findOrCreateFolder('entries', appFolderId): the create answers; Drive
\* rejects a parent the account does not own
EntCreateResp ==
    /\ call.pc = "entCreate"
    /\ call.cred # NullToken
    /\ call.appf.acct = call.cred
    /\ LET f == NewFolder(call.cred, ENTRIES_FOLDER_NAME, call.appf)
       IN  /\ folders' = folders \cup {f}
           /\ entriesFolderId' = f
           /\ call' = AfterFolder(call, f, driveToken)
    /\ UNCHANGED << asyncStorage, isOnline, accessToken, driveToken,
                    appFolderId, files, storeVars, ncalls >>

\* findFile answers: a save goes on to upload, a load to download or null
FindFileResp ==
    /\ call.pc = "findFile"
    /\ call.cred # NullToken
    /\ LET id == FindFile(call.cred, call.name, call.folder)
           c1 == [call EXCEPT !.fileId = id,
                              !.nofile = @ \/ (id = Null /\ call.dop = "load")]
       IN  call' = IF call.dop = "save" THEN Send(c1, "upload", driveToken)
                   ELSE IF id = Null
                        THEN AfterDrive(c1, TRUE, Null, driveToken, appFolderId,
                                        entriesFolderId)
                        ELSE Send(c1, "download", driveToken)
    /\ UNCHANGED << asyncStorage, isOnline, accessToken, driveToken, appFolderId,
                    entriesFolderId, folders, files, storeVars, ncalls >>

\* uploadFile answers: PATCH of the existing file or POST of a new one
UploadResp ==
    /\ call.pc = "upload"
    /\ call.cred # NullToken
    /\ call.folder.acct = call.cred
    /\ LET id == IF call.fileId # Null THEN call.fileId
                 ELSE FileId(call.folder, call.name)
       IN  files' = SetItem(files, id, call.text)
    /\ call' = AfterDrive(call, TRUE, Null, driveToken, appFolderId,
                          entriesFolderId)
    /\ UNCHANGED << asyncStorage, isOnline, accessToken, driveToken, appFolderId,
                    entriesFolderId, folders, storeVars, ncalls >>

\* (mutant) text that is not JSON is handed on as it is
DownloadedValueUnparsed(content) ==
    IF CanParse(content) THEN JSONparse(content) ELSE content

\* loadSettings / loadMonthlyEntries of GoogleDriveService after the
\* download: JSON.parse(content), null from the catch when it throws
DownloadedValue(content) ==
    IF CanParse(content) THEN JSONparse(content) ELSE Null

\* downloadFile answers; JSON.parse of the content throws inside the try
\* block of loadSettings / loadMonthlyEntries, which then return null
DownloadResp ==
    /\ call.pc = "download"
    /\ call.cred # NullToken
    /\ call.fileId.parent.acct = call.cred
    /\ LET content == files[call.fileId]
       IN  call' = AfterDrive([call EXCEPT !.garbled = @ \/ ~CanParse(content)],
                              TRUE, DownloadedValue(content),
                              driveToken, appFolderId, entriesFolderId)
    /\ UNCHANGED << asyncStorage, isOnline, accessToken, driveToken, appFolderId,
                    entriesFolderId, folders, files, storeVars, ncalls >>

\* (mutant) the names are not filtered by the yyyy-MM pattern
ListedMonthsUnfiltered(names) ==
    [i \in 1..Len(names) |-> ReplaceJson(names[i])]

\* the months listMonthlyEntryFiles makes of the names, in the order listed
ListedMonths(names) ==
    SelectSeq([i \in 1..Len(names) |-> ReplaceJson(names[i])], MatchesMonthPattern)

\* listMonthlyEntryFiles: the list request answers
ListResp ==
    /\ call.pc = "list"
    /\ call.cred # NullToken
    /\ LET names == IF call.folder.acct = call.cred
                    THEN { id.name : id \in { x \in DOMAIN files :
                                               x.parent = call.folder } }
                    ELSE {}
       IN  \E order \in Orderings(names) :
              call' = AfterDrive(call, TRUE, ListedMonths(order), driveToken,
                                 appFolderId, entriesFolderId)
    /\ UNCHANGED << asyncStorage, isOnline, accessToken, driveToken, appFolderId,
                    entriesFolderId, folders, files, storeVars, ncalls >>

----------------------------------------------------------------------------
(* Initial states *)

\* the first month, 2025-01
M1 == << MonthTok(2025, 1) >>

\* the folders of account t1 once the app has synchronised to it
DriveAppFolder == Folder("t1", APP_FOLDER_NAME, Null, 1)
DriveEntriesFolder == Folder("t1", ENTRIES_FOLDER_NAME, DriveAppFolder, 1)

\* names found in a Drive folder that are not <yyyy-MM>.json
NameNoExtension == M1                                            \* 2025-01
NameTwiceJson == << Lit("notes"), Lit(".json"), Lit(".json") >>  \* notes.json.json
NameText == << Lit("notes"), Lit(".txt") >>                      \* notes.txt

\* what the Drive of account t1 holds when the app starts: nothing, or the
\* folders with files written by an earlier session or by something else
DriveInits ==
    { [folders |-> {}, files |-> << >>],
      [folders |-> {DriveAppFolder, DriveEntriesFolder},
       files |-> (FileId(DriveAppFolder, SettingsFileName)
                     :> JSONstringify(Settings(MaxVer)))
              @@ (FileId(DriveEntriesFolder, MonthFileName(M1))
                     :> JSONstringify(Partition(M1, MaxVer)))
              @@ (FileId(DriveEntriesFolder, NameTwiceJson)
                     :> JSONstringify(Partition(M1, 1)))],
      [folders |-> {DriveAppFolder, DriveEntriesFolder},
       files |-> (FileId(DriveAppFolder, SettingsFileName) :> Garbage)
              @@ (FileId(DriveEntriesFolder, MonthFileName(M1)) :> Garbage)
              @@ (FileId(DriveEntriesFolder, NameText)
                     :> JSONstringify(Partition(M1, 1)))],
      [folders |-> {DriveAppFolder, DriveEntriesFolder},
       files |-> (FileId(DriveAppFolder, SettingsFileName) :> JSONstringify(Null))
              @@ (FileId(DriveEntriesFolder, NameNoExtension)
                     :> JSONstringify(Partition(M1, 1)))] }

\* the day the app is started on
Today == [y |-> 2025, m |-> 1, d |-> 1]

\* the entries store as created (entriesStore.ts 45-48)
StoreInit ==
    /\ entries = << >>
    /\ isLoading = FALSE
    /\ currentDate = Today
    /\ pending = << >>
    /\ clock = 0
    /\ members = << >>
    /\ lastModified = Null
    /\ issued = 0
    /\ unhandled = FALSE
    /\ scheduledNotifications = {}

\* the services as constructed: offline, no token, no memo
ServiceInit ==
    /\ isOnline = FALSE
    /\ accessToken = NullToken
    /\ driveToken = NullToken
    /\ appFolderId = Null
    /\ entriesFolderId = Null
    /\ call = IdleCall
    /\ ncalls = 0
    /\ ops = << >>

\* what AsyncStorage holds when the app starts: nothing, or the units an
\* earlier session saved
LocalInits ==
    { << >>,
      (AppSettingsKey :> JSONstringify(Settings(1)))
        @@ [k \in { EntriesKey(month) : month \in Months } |->
              JSONstringify(Partition(<< k[2] >>, 1))] }

Init ==
    /\ asyncStorage \in LocalInits
    /\ ServiceInit
    /\ \E d \in DriveInits : folders = d.folders /\ files = d.files
    /\ StoreInit

----------------------------------------------------------------------------
(* The StorageService and its Drive *)

RequestPcs == {"appSearch", "appCreate", "entSearch", "entCreate", "findFile",
               "upload", "download", "list"}

\* an awaited request of the call in flight settles
Settle ==
    \/ LocalSetItemDone
    \/ LocalGetItemDone
    \/ LocalGetAllKeysDone
    \/ \E pc \in RequestPcs : RequestFails(pc)
    \/ AppSearchResp
    \/ AppCreateResp
    \/ EntSearchResp
    \/ EntCreateResp
    \/ FindFileResp
    \/ UploadResp
    \/ DownloadResp
    \/ ListResp

\* one account: the caller signs in and out between its calls
Next ==
    \/ \E token \in {"t1", NullToken} : ~InFlight(call) /\ SetOnlineMode(token)
    \/ \E settings \in SettingsVals : SaveSettings(settings)
    \/ \E data \in PartitionVals : SaveMonthlyEntries(data)
    \/ LoadSettings
    \/ \E month \in Months : LoadMonthlyEntries(month)
    \/ SyncToCloud
    \/ SyncFromCloud
    \/ Settle

Spec == Init /\ [][Next]_vars

----------------------------------------------------------------------------
(* Credential rotation: the user signs out and another account signs in    *)
(* while calls are in flight                                               *)

InitRotate ==
    /\ asyncStorage = << >>
    /\ ServiceInit
    /\ folders = {} /\ files = << >>
    /\ StoreInit

NextRotate ==
    \/ \E token \in Tokens \cup {NullToken} : SetOnlineMode(token)
    \/ SaveSettings(Settings(1))
    \/ SaveMonthlyEntries(Partition(M1, 1))
    \/ LoadMonthlyEntries(M1)
    \/ LocalSetItemDone
    \/ LocalGetItemDone
    \/ \E pc \in RequestPcs : RequestFails(pc)
    \/ AppSearchResp
    \/ AppCreateResp
    \/ EntSearchResp
    \/ EntCreateResp
    \/ FindFileResp
    \/ UploadResp
    \/ DownloadResp

SpecRotate == InitRotate /\ [][NextRotate]_vars

----------------------------------------------------------------------------
(* Modes: setOnlineMode with every kind of argument, between the calls     *)

InitModes ==
    /\ asyncStorage \in LocalInits
    /\ ServiceInit
    /\ \/ folders = {} /\ files = << >>
       \/ /\ folders = {DriveAppFolder, DriveEntriesFolder}
          /\ files = (FileId(DriveAppFolder, SettingsFileName)
                         :> JSONstringify(Settings(MaxVer)))
                   @@ (FileId(DriveEntriesFolder, MonthFileName(M1))
                         :> JSONstringify(Partition(M1, MaxVer)))
    /\ StoreInit

NextModes ==
    \/ \E token \in {"t1", EmptyToken, NullToken} :
          ~InFlight(call) /\ SetOnlineMode(token)
    \/ SaveSettings(Settings(1))
    \/ SaveMonthlyEntries(Partition(M1, 1))
    \/ LoadSettings
    \/ LoadMonthlyEntries(M1)
    \/ SyncToCloud
    \/ SyncFromCloud
    \/ Settle

SpecModes == InitModes /\ [][NextModes]_vars

----------------------------------------------------------------------------
(* Folder resolution by operations that run at the same time: each public  *)
(* method of GoogleDriveService begins with ensureAppFolder or             *)
(* ensureEntriesFolder, and nothing keeps two of them from being in flight *)

\* ensureAppFolder / ensureEntriesFolder returned id, or threw
OpDone(op, id) == [op EXCEPT !.pc = "done", !.id = id]

OpThrew(op) == [op EXCEPT !.pc = "threw"]

\* request() of an operation: the token held now goes with the request
OpSend(op, pc) == [op EXCEPT !.pc = pc, !.cred = driveToken]

\* ensureAppFolder returned id to the operation
OpAfterAppFolder(op, id) ==
    IF op.scope = "app" THEN OpDone(op, id)
    ELSE OpSend([op EXCEPT !.appf = id], "entSearch")

\* a public method calls ensureAppFolder (scope app) or ensureEntriesFolder
\* (scope entries): the memo checks up to the first request
EnsureFolder(scope) ==
    /\ Len(ops) < MaxOps
    /\ TruthyToken(driveToken)
    /\ LET op == [scope |-> scope, pc |-> "idle", cred |-> NullToken,
                  appf |-> Null, id |-> Null]
       IN  ops' = Append(ops,
                    IF scope = "app"
                    THEN IF appFolderId # Null THEN OpDone(op, appFolderId)
                         ELSE OpSend(op, "appSearch")
                    ELSE IF entriesFolderId # Null THEN OpDone(op, entriesFolderId)
                         ELSE IF appFolderId # Null
                              THEN OpSend([op EXCEPT !.appf = appFolderId],
                                          "entSearch")
                              ELSE OpSend(op, "appSearch"))
    /\ UNCHANGED << asyncStorage, isOnline, accessToken, driveToken, appFolderId,
                    entriesFolderId, folders, files, call, ncalls, entries,
                    isLoading, currentDate, pending, clock, members,
                    lastModified, issued, unhandled,
                    scheduledNotifications >>

\* findOrCreateFolder(APP_FOLDER_NAME) of operation i: the search answers
OpAppSearchResp(i) ==
    /\ ops[i].pc = "appSearch"
    /\ LET found == FindFolders(ops[i].cred, APP_FOLDER_NAME, Null)
       IN  IF found # {}
           THEN \E f \in found :
                   /\ appFolderId' = f
                   /\ ops' = [ops EXCEPT ![i] = OpAfterAppFolder(@, f)]
           ELSE /\ ops' = [ops EXCEPT ![i] = OpSend(@, "appCreate")]
                /\ UNCHANGED appFolderId
    /\ UNCHANGED << asyncStorage, isOnline, accessToken, driveToken,
                    entriesFolderId, folders, files, call, ncalls, entries,
                    isLoading, currentDate, pending, clock, members,
                    lastModified, issued, unhandled,
                    scheduledNotifications >>

\* findOrCreateFolder(APP_FOLDER_NAME) of operation i: the create answers
OpAppCreateResp(i) ==
    /\ ops[i].pc = "appCreate"
    /\ LET f == NewFolder(ops[i].cred, APP_FOLDER_NAME, Null)
       IN  /\ folders' = folders \cup {f}
           /\ appFolderId' = f
           /\ ops' = [ops EXCEPT ![i] = OpAfterAppFolder(@, f)]
    /\ UNCHANGED << asyncStorage, isOnline, accessToken, driveToken,
                    entriesFolderId, files, call, ncalls, entries,
                    isLoading, currentDate, pending, clock, members,
                    lastModified, issued, unhandled,
                    scheduledNotifications >>

\* findOrCreateFolder('entries', appFolderId) of operation i: the search
\* answers
OpEntSearchResp(i) ==
    /\ ops[i].pc = "entSearch"
    /\ LET found == FindFolders(ops[i].cred, ENTRIES_FOLDER_NAME, ops[i].appf)
       IN  IF found # {}
           THEN \E f \in found :
                   /\ entriesFolderId' = f
                   /\ ops' = [ops EXCEPT ![i] = OpDone(@, f)]
           ELSE /\ ops' = [ops EXCEPT ![i] = OpSend(@, "entCreate")]
                /\ UNCHANGED entriesFolderId
    /\ UNCHANGED << asyncStorage, isOnline, accessToken, driveToken,
                    appFolderId, folders, files, call, ncalls, entries,
                    isLoading, currentDate, pending, clock, members,
                    lastModified, issued, unhandled,
                    scheduledNotifications >>

\* findOrCreateFolder('entries', appFolderId) of operation i: the create
\* answers
OpEntCreateResp(i) ==
    /\ ops[i].pc = "entCreate"
    /\ LET f == NewFolder(ops[i].cred, ENTRIES_FOLDER_NAME, ops[i].appf)
       IN  /\ folders' = folders \cup {f}
           /\ entriesFolderId' = f
           /\ ops' = [ops EXCEPT ![i] = OpDone(@, f)]
    /\ UNCHANGED << asyncStorage, isOnline, accessToken, driveToken,
                    appFolderId, files, call, ncalls, entries,
                    isLoading, currentDate, pending, clock, members,
                    lastModified, issued, unhandled,
                    scheduledNotifications >>

\* the request operation i waits for is rejected: the operation throws
OpRequestFails(i) ==
    /\ ops[i].pc \in {"appSearch", "appCreate", "entSearch", "entCreate"}
    /\ ops' = [ops EXCEPT ![i] = OpThrew(@)]
    /\ UNCHANGED << asyncStorage, isOnline, accessToken, driveToken, appFolderId,
                    entriesFolderId, folders, files, call, ncalls, entries,
                    isLoading, currentDate, pending, clock, members,
                    lastModified, issued, unhandled,
                    scheduledNotifications >>

\* one account, signed in before the operations begin; its Drive is empty,
\* or holds the folders of an earlier session
InitFolders ==
    /\ asyncStorage = << >>
    /\ ServiceInit
    /\ folders \in { {}, {DriveAppFolder}, {DriveAppFolder, DriveEntriesFolder} }
    /\ files = << >>
    /\ StoreInit

NextFolders ==
    \/ (driveToken = NullToken /\ SetOnlineMode("t1"))
    \/ \E scope \in {"app", "entries"} : EnsureFolder(scope)
    \/ \E i \in DOMAIN ops :
          \/ OpAppSearchResp(i)
          \/ OpAppCreateResp(i)
          \/ OpEntSearchResp(i)
          \/ OpEntCreateResp(i)
          \/ OpRequestFails(i)

SpecFolders == InitFolders /\ [][NextFolders]_vars

----------------------------------------------------------------------------
(* The entries store (entriesStore.ts).  The Map of entries keeps the     *)
(* order of insertion, which is the order of the entries in a saved blob.  *)
(* AsyncStorage serves the requests of the store one at a time, in the     *)
(* order they were made.                                                   *)

MemberIds == {"m1", "m2"}
SectionIds == {"s1"}
TaskIds == {"t1"}
\* the days the user visits: one in 2025-01, one in 2025-02
Dates == { [y |-> 2025, m |-> 1, d |-> 1], [y |-> 2025, m |-> 2, d |-> 1] }

\* getMonthKey: format(parseISO(date), 'yyyy-MM')
getMonthKey(date) == << MonthTok(date.y, date.m) >>
\* getEntryKey: `${memberId}_${date}`
getEntryKey(memberId, date) == << memberId, date >>

\* Map.get
MapGet(map, key) ==
    IF \E i \in DOMAIN map : map[i].k = key
    THEN map[CHOOSE i \in DOMAIN map : map[i].k = key].v
    ELSE Null

\* Map.set on a copy: an existing key keeps its place, a new one goes last
MapSet(map, key, value) ==
    IF \E i \in DOMAIN map : map[i].k = key
    THEN [i \in DOMAIN map |-> IF map[i].k = key THEN [k |-> key, v |-> value]
                                ELSE map[i]]
    ELSE Append(map, [k |-> key, v |-> value])

\* saveEntriesToStorage, `byMonth`: the months in the order the Map yields
\* their first entry
MonthsInOrder(map) ==
    LET first == { i \in DOMAIN map :
                     \A j \in 1..(i - 1) :
                        getMonthKey(map[j].v.date) # getMonthKey(map[i].v.date) }
        idx == SelectSeq([i \in DOMAIN map |-> i], LAMBDA i : i \in first)
    IN  [n \in DOMAIN idx |-> getMonthKey(map[idx[n]].v.date)]

\* (mutant) every blob of a flush gets all entries held in memory
MonthEntriesUngrouped(map, month) == [n \in DOMAIN map |-> map[n].v]

\* saveEntriesToStorage, `byMonth.get(month)`: the entries of one month
MonthEntries(map, month) ==
    LET hit == SelectSeq([i \in DOMAIN map |-> i],
                         LAMBDA i : getMonthKey(map[i].v.date) = month)
    IN  [n \in DOMAIN hit |-> map[hit[n]].v]

\* saveEntriesToStorage up to `await Promise.all`: one setItem per month
\* held in memory, each with all entries of that month held in memory
SaveRequests(map, now) ==
    LET months == MonthsInOrder(map)
    IN  [n \in DOMAIN months |->
           [op |-> "set",
            key |-> EntriesKey(months[n]),
            text |-> JSONstringify([month |-> months[n],
                                    entries |-> MonthEntries(map, months[n]),
                                    lastModified |-> now])]]

\* (mutant) the response is appended without looking for an existing one
UpdatedResponsesAppends(responses, taskId, value) ==
    Append(responses, [taskId |-> taskId, value |-> value])

\* updateTaskResponse, lines 76-94: the task responses of the section
UpdatedResponses(responses, taskId, value) ==
    IF \E i \in DOMAIN responses : responses[i].taskId = taskId
    THEN [i \in DOMAIN responses |->
            IF responses[i].taskId = taskId
            THEN [responses[i] EXCEPT !.value = value] ELSE responses[i]]
    ELSE Append(responses, [taskId |-> taskId, value |-> value])

\* (mutant) the entry is always made anew, with the one answered section
TaskResponseEntryAnew(existing, memberId, date, sectionId, taskId, value, now) ==
    [date |-> date, memberId |-> memberId,
     sectionEntries |-> << [sectionId |-> sectionId,
                            taskResponses |-> << [taskId |-> taskId,
                                                  value |-> value] >>,
                            notes |-> ""] >>,
     lastModified |-> now]

\* updateTaskResponse: the entry it hands to setEntry
TaskResponseEntry(existing, memberId, date, sectionId, taskId, value, now) ==
    IF existing # Null
    THEN LET ses == existing.sectionEntries
             mapped == [i \in DOMAIN ses |->
                          IF ses[i].sectionId = sectionId
                          THEN [ses[i] EXCEPT !.taskResponses =
                                   UpdatedResponses(@, taskId, value)]
                          ELSE ses[i]]
             sectionExists == \E i \in DOMAIN ses : ses[i].sectionId = sectionId
         IN  [existing EXCEPT
                !.sectionEntries =
                    IF sectionExists THEN mapped
                    ELSE Append(mapped,
                                [sectionId |-> sectionId,
                                 taskResponses |-> << [taskId |-> taskId,
                                                       value |-> value] >>,
                                 notes |-> ""]),
                !.lastModified = now]
    ELSE [date |-> date, memberId |-> memberId,
          sectionEntries |-> << [sectionId |-> sectionId,
                                 taskResponses |-> << [taskId |-> taskId,
                                                       value |-> value] >>,
                                 notes |-> ""] >>,
          lastModified |-> now]

\* (mutant) the section is appended without looking for an existing one
SectionNotesEntryAppends(existing, memberId, date, sectionId, notes, now) ==
    IF existing # Null
    THEN [existing EXCEPT
            !.sectionEntries = Append(@, [sectionId |-> sectionId,
                                          taskResponses |-> << >>,
                                          notes |-> notes]),
            !.lastModified = now]
    ELSE [date |-> date, memberId |-> memberId,
          sectionEntries |-> << [sectionId |-> sectionId,
                                 taskResponses |-> << >>,
                                 notes |-> notes] >>,
          lastModified |-> now]

\* updateSectionNotes: the entry it hands to setEntry
SectionNotesEntry(existing, memberId, date, sectionId, notes, now) ==
    IF existing # Null
    THEN LET ses == existing.sectionEntries
             sectionExists == \E i \in DOMAIN ses : ses[i].sectionId = sectionId
         IN  [existing EXCEPT
                !.sectionEntries =
                    IF sectionExists
                    THEN [i \in DOMAIN ses |->
                            IF ses[i].sectionId = sectionId
                            THEN [ses[i] EXCEPT !.notes = notes] ELSE ses[i]]
                    ELSE Append(ses, [sectionId |-> sectionId,
                                      taskResponses |-> << >>,
                                      notes |-> notes]),
                !.lastModified = now]
    ELSE [date |-> date, memberId |-> memberId,
          sectionEntries |-> << [sectionId |-> sectionId,
                                 taskResponses |-> << >>,
                                 notes |-> notes] >>,
          lastModified |-> now]

\* a mutating call may be made: the run's budget of edits and of
\* outstanding requests is not used up
CanEdit == clock < MaxEdits /\ Len(pending) < MaxPending

\* setEntry, lines 61-66: a copy of the Map holding the entry stamped now
EntriesWith(map, entry, now) ==
    MapSet(map, getEntryKey(entry.memberId, entry.date),
           [entry EXCEPT !.lastModified = now])

\* (mutant) the new writes overtake the ones still outstanding
IssueWritesFirst(queue, requests) == requests \o queue

\* saveEntriesToStorage, lines 214-219: the setItem calls are made in the
\* order of the loop, behind the requests that are still outstanding
IssueWrites(queue, requests) == queue \o requests

\* setEntry(entry): the Map is replaced by a copy holding the entry stamped
\* now, and saveEntriesToStorage() issues its writes before it first awaits
setEntry(entry) ==
    /\ CanEdit
    /\ clock' = clock + 1
    /\ LET map == EntriesWith(entries, entry, clock + 1)
       IN  /\ entries' = map
           /\ pending' = IssueWrites(pending, SaveRequests(map, clock + 1))
    /\ UNCHANGED << asyncStorage, isLoading, currentDate, isOnline, accessToken,
                    driveToken, appFolderId, entriesFolderId, folders, files,
                    call, ncalls, members, lastModified, issued, unhandled, ops,
                    scheduledNotifications >>

updateTaskResponse(memberId, date, sectionId, taskId, value) ==
    setEntry(TaskResponseEntry(MapGet(entries, getEntryKey(memberId, date)),
                               memberId, date, sectionId, taskId, value,
                               clock + 1))

updateSectionNotes(memberId, date, sectionId, notes) ==
    setEntry(SectionNotesEntry(MapGet(entries, getEntryKey(memberId, date)),
                               memberId, date, sectionId, notes, clock + 1))

\* notificationService.handleNotificationResponse: a Yes / No action on the
\* reminder of a checkbox task answers it for today
handleNotificationResponse(actionIdentifier, memberId, sectionId, taskId, taskType) ==
    /\ taskType = "checkbox"
    /\ actionIdentifier \in {"YES", "NO"}
    /\ updateTaskResponse(memberId, Today, sectionId, taskId,
                          actionIdentifier = "YES")

\* loadEntriesForMonth(month) up to `await AsyncStorage.getItem`
LoadRequest(month) == [op |-> "get", key |-> EntriesKey(month), text |-> Null]

loadEntriesForMonth(month) ==
    /\ Len(pending) < MaxPending
    /\ isLoading' = TRUE
    /\ pending' = Append(pending, LoadRequest(month))
    /\ UNCHANGED << asyncStorage, entries, currentDate, clock, isOnline,
                    accessToken, driveToken, appFolderId, entriesFolderId,
                    folders, files, call, ncalls, members, lastModified,
                    issued, unhandled, ops,
                    scheduledNotifications >>

\* setCurrentDate(date)
setCurrentDate(date) ==
    /\ Len(pending) < MaxPending
    /\ currentDate' = date
    /\ isLoading' = TRUE
    /\ pending' = Append(pending, LoadRequest(getMonthKey(date)))
    /\ UNCHANGED << asyncStorage, entries, clock, isOnline, accessToken,
                    driveToken, appFolderId, entriesFolderId, folders, files,
                    call, ncalls, members, lastModified, issued, unhandled, ops,
                    scheduledNotifications >>

\* loadEntriesForMonth, lines 178-184: every stored entry is set in the Map
MergeStored(map, stored) ==
    LET Merge[n \in 0..Len(stored)] ==
            IF n = 0 THEN map
            ELSE MapSet(Merge[n - 1],
                        getEntryKey(stored[n].memberId, stored[n].date),
                        stored[n])
    IN  Merge[Len(stored)]

\* the getItem of a loadEntriesForMonth resolves
StoreGetItemDone ==
    /\ pending # << >>
    /\ Head(pending).op = "get"
    /\ Head(pending).key # AppSettingsKey
    /\ LET stored == GetItem(asyncStorage, Head(pending).key)
       IN  entries' = IF /\ stored # Null
                         /\ CanParse(stored)
                         /\ JSONparse(stored) # Null
                      THEN MergeStored(entries, JSONparse(stored).entries)
                      ELSE entries
    /\ isLoading' = FALSE
    /\ pending' = Tail(pending)
    /\ UNCHANGED << asyncStorage, currentDate, clock, isOnline, accessToken,
                    driveToken, appFolderId, entriesFolderId, folders, files,
                    call, ncalls, members, lastModified, issued, unhandled, ops,
                    scheduledNotifications >>

\* (mutant) the rejection of a write is not caught
SaveSettlesUncaught(ok) == IF ok THEN "resolved" ELSE "rejected"

\* saveEntriesToStorage, lines 195-224, and saveSettings: the try / catch
\* around the awaited setItem logs a rejection, the promise of the save
\* resolves either way
SaveSettles(ok) == "resolved"

\* a setItem of saveEntriesToStorage or saveSettings settles; nothing awaits
\* the promise of the save and nothing handles its rejection
StoreSetItemDone ==
    /\ pending # << >>
    /\ Head(pending).op = "set"
    /\ \E ok \in BOOLEAN :
          /\ asyncStorage' = IF ok THEN SetItem(asyncStorage, Head(pending).key,
                                                Head(pending).text)
                             ELSE asyncStorage
          /\ unhandled' = (unhandled \/ SaveSettles(ok) = "rejected")
    /\ pending' = Tail(pending)
    /\ UNCHANGED << entries, isLoading, currentDate, clock, isOnline,
                    accessToken, driveToken, appFolderId, entriesFolderId,
                    folders, files, call, ncalls, members, lastModified, issued,
                    ops, scheduledNotifications >>

\* the app is closed and started again: the store is created anew,
\* AsyncStorage stays
Restart ==
    /\ pending = << >>
    /\ entries # << >> \/ members # << >>
    /\ entries' = << >>
    /\ isLoading' = FALSE
    /\ currentDate' = Today
    /\ members' = << >>
    /\ lastModified' = Null
    /\ UNCHANGED << asyncStorage, pending, clock, isOnline, accessToken,
                    driveToken, appFolderId, entriesFolderId, folders, files,
                    call, ncalls, issued, unhandled, ops,
                    scheduledNotifications >>

InitStore ==
    /\ asyncStorage = << >>
    /\ ServiceInit
    /\ folders = {} /\ files = << >>
    /\ StoreInit

NextStore ==
    \/ \E memberId \in MemberIds, date \in Dates, sectionId \in SectionIds,
          taskId \in TaskIds, value \in BOOLEAN :
          updateTaskResponse(memberId, date, sectionId, taskId, value)
    \/ \E memberId \in MemberIds, date \in Dates, sectionId \in SectionIds :
          updateSectionNotes(memberId, date, sectionId, "note")
    \/ \E actionIdentifier \in {"YES", "NO", "default"}, memberId \in MemberIds,
          sectionId \in SectionIds, taskId \in TaskIds,
          taskType \in {"checkbox", "text"} :
          handleNotificationResponse(actionIdentifier, memberId, sectionId,
                                     taskId, taskType)
    \/ \E date \in Dates : setCurrentDate(date)
    \/ \E date \in Dates : loadEntriesForMonth(getMonthKey(date))
    \/ StoreGetItemDone
    \/ StoreSetItemDone
    \/ Restart

SpecStore == InitStore /\ [][NextStore]_vars

\* the blob entries_<month of date> holds an entry of (memberId, date)
Persisted(store, memberId, date) ==
    LET blob == GetItem(store, EntriesKey(getMonthKey(date)))
    IN  /\ blob # Null
        /\ CanParse(blob)
        /\ \E i \in DOMAIN JSONparse(blob).entries :
              /\ JSONparse(blob).entries[i].memberId = memberId
              /\ JSONparse(blob).entries[i].date = date

\* C6: once a DailyEntry of (memberId, date) is in the local blob
\* entries_<month>, it stays there through every updateTaskResponse,
\* updateSectionNotes, setEntry, setCurrentDate and loadEntriesForMonth,
\* also when the update comes before the month was loaded into memory.
C6_PersistedEntryStays ==
    [][\A memberId \in MemberIds, date \in Dates :
          Persisted(asyncStorage, memberId, date) =>
              Persisted(asyncStorage', memberId, date)]_vars

----------------------------------------------------------------------------
(* The settings store (settingsStore.ts).  Every mutation replaces the     *)
(* members, stamps lastModified and calls saveSettings(), which writes      *)
(* app_settings to AsyncStorage; the reminders that addTask and updateTask *)
(* reschedule, without awaiting it, are the step syncNotifications.        *)

\* generateId(): Crypto.randomUUID(), an id never seen before
generateId(n) == "u" \o ToString(n)

\* the settings an earlier session left under app_settings
StoredSettings ==
    [members |-> << [id |-> "m1", name |-> "n1", color |-> "c1",
                     sections |-> << [id |-> "s1", name |-> "n1",
                                      tasks |-> << [id |-> "t1", name |-> "n1",
                                                    type |-> "checkbox"] >>] >>] >>,
     lastModified |-> 0]

\* state.members.map((m) => m.id === memberId ? f(m) : m)
MapMember(ms, memberId, f(_)) ==
    [i \in DOMAIN ms |-> IF ms[i].id = memberId THEN f(ms[i]) ELSE ms[i]]

\* m.sections.map((s) => s.id === sectionId ? f(s) : s)
MapSection(m, sectionId, f(_)) ==
    [m EXCEPT !.sections =
        [i \in DOMAIN @ |-> IF @[i].id = sectionId THEN f(@[i]) ELSE @[i]]]

\* { ...x, ...updates }
Spread(x, updates) == updates @@ x

\* saveSettings up to `await AsyncStorage.setItem`
SettingsRequest(ms, modified) ==
    [op |-> "set", key |-> AppSettingsKey,
     text |-> JSONstringify([members |-> ms, lastModified |-> modified])]

\* set({ members, lastModified: new Date() }) followed by get().saveSettings()
SetMembers(ms, ids) ==
    /\ CanEdit
    /\ clock' = clock + 1
    /\ members' = ms
    /\ lastModified' = clock + 1
    /\ issued' = issued + ids
    /\ pending' = Append(pending, SettingsRequest(ms, clock + 1))
    /\ UNCHANGED << asyncStorage, entries, isLoading, currentDate, isOnline,
                    accessToken, driveToken, appFolderId, entriesFolderId,
                    folders, files, call, ncalls, unhandled, ops,
                    scheduledNotifications >>

addMember(name, color) ==
    SetMembers(Append(members, [id |-> generateId(issued + 1), name |-> name,
                                color |-> color, sections |-> << >>]), 1)

updateMember(id, updates) ==
    SetMembers(MapMember(members, id, LAMBDA m : Spread(m, updates)), 0)

\* (mutant) the entries of the member are deleted with it
deleteMemberCascades(id) ==
    /\ CanEdit
    /\ clock' = clock + 1
    /\ members' = SelectSeq(members, LAMBDA m : m.id # id)
    /\ lastModified' = clock + 1
    /\ entries' = SelectSeq(entries, LAMBDA e : e.v.memberId # id)
    /\ pending' = Append(pending,
                         SettingsRequest(SelectSeq(members, LAMBDA m : m.id # id),
                                         clock + 1))
    /\ UNCHANGED << asyncStorage, isLoading, currentDate, isOnline, issued,
                    accessToken, driveToken, appFolderId, entriesFolderId,
                    folders, files, call, ncalls, unhandled, ops,
                    scheduledNotifications >>

deleteMember(id) ==
    SetMembers(SelectSeq(members, LAMBDA m : m.id # id), 0)

addSection(memberId, name) ==
    SetMembers(MapMember(members, memberId,
                 LAMBDA m : [m EXCEPT !.sections =
                                Append(@, [id |-> generateId(issued + 1),
                                           name |-> name, tasks |-> << >>])]), 1)

updateSection(memberId, sectionId, name) ==
    SetMembers(MapMember(members, memberId,
                 LAMBDA m : MapSection(m, sectionId,
                               LAMBDA sec : [sec EXCEPT !.name = name])), 0)

deleteSection(memberId, sectionId) ==
    SetMembers(MapMember(members, memberId,
                 LAMBDA m : [m EXCEPT !.sections =
                                SelectSeq(@, LAMBDA sec : sec.id # sectionId)]), 0)

addTask(memberId, sectionId, name, type) ==
    SetMembers(MapMember(members, memberId,
                 LAMBDA m : MapSection(m, sectionId,
                               LAMBDA sec : [sec EXCEPT !.tasks =
                                  Append(@, [id |-> generateId(issued + 1),
                                             name |-> name, type |-> type])])), 1)

updateTask(memberId, sectionId, taskId, updates) ==
    SetMembers(MapMember(members, memberId,
                 LAMBDA m : MapSection(m, sectionId,
                               LAMBDA sec : [sec EXCEPT !.tasks =
                                  [i \in DOMAIN @ |->
                                     IF @[i].id = taskId
                                     THEN Spread(@[i], updates) ELSE @[i]]])), 0)

deleteTask(memberId, sectionId, taskId) ==
    SetMembers(MapMember(members, memberId,
                 LAMBDA m : MapSection(m, sectionId,
                               LAMBDA sec : [sec EXCEPT !.tasks =
                                  SelectSeq(@, LAMBDA t : t.id # taskId)])), 0)

\* loadSettings() of the store up to `await AsyncStorage.getItem`
loadSettings ==
    /\ Len(pending) < MaxPending
    /\ pending' = Append(pending, [op |-> "get", key |-> AppSettingsKey,
                                   text |-> Null])
    /\ UNCHANGED << asyncStorage, entries, isLoading, currentDate, clock,
                    members, lastModified, issued, unhandled, ops,
                    scheduledNotifications, isOnline, accessToken,
                    driveToken, appFolderId, entriesFolderId, folders, files,
                    call, ncalls >>

\* the getItem of loadSettings resolves
SettingsGetItemDone ==
    /\ pending # << >>
    /\ Head(pending).op = "get"
    /\ Head(pending).key = AppSettingsKey
    /\ LET stored == GetItem(asyncStorage, AppSettingsKey)
       IN  IF stored # Null /\ CanParse(stored) /\ JSONparse(stored) # Null
           THEN /\ members' = JSONparse(stored).members
                /\ lastModified' = JSONparse(stored).lastModified
           ELSE UNCHANGED << members, lastModified >>
    /\ pending' = Tail(pending)
    /\ UNCHANGED << asyncStorage, entries, isLoading, currentDate, clock, issued,
                    isOnline, accessToken, driveToken, appFolderId,
                    entriesFolderId, folders, files, call, ncalls, unhandled, ops,
                    scheduledNotifications >>

----------------------------------------------------------------------------
(* The app in use: the user signs in on the auth screen, then keeps the     *)
(* journal and edits the configuration.                                     *)

\* the user signs in before anything is edited
SignIn ==
    /\ ~isOnline
    /\ clock = 0
    /\ SetOnlineMode("t1")

InitApp ==
    /\ asyncStorage \in { << >>, AppSettingsKey :> JSONstringify(StoredSettings) }
    /\ ServiceInit
    /\ folders = {} /\ files = << >>
    /\ StoreInit

NextApp ==
    \/ SignIn
    \/ \E memberId \in MemberIds, date \in Dates, sectionId \in SectionIds,
          taskId \in TaskIds :
          updateTaskResponse(memberId, date, sectionId, taskId, TRUE)
    \/ \E memberId \in MemberIds, date \in Dates, sectionId \in SectionIds :
          updateSectionNotes(memberId, date, sectionId, "note")
    \/ addMember("n2", "c1")
    \/ \E id \in MemberIds : updateMember(id, [name |-> "n2"])
    \/ \E id \in MemberIds : deleteMember(id)
    \/ \E memberId \in MemberIds : addSection(memberId, "n2")
    \/ \E memberId \in MemberIds, sectionId \in SectionIds :
          updateSection(memberId, sectionId, "n2")
    \/ \E memberId \in MemberIds, sectionId \in SectionIds :
          deleteSection(memberId, sectionId)
    \/ \E memberId \in MemberIds, sectionId \in SectionIds,
          type \in {"checkbox", "numeric"} :
          addTask(memberId, sectionId, "n2", type)
    \/ \E memberId \in MemberIds, sectionId \in SectionIds, taskId \in TaskIds :
          updateTask(memberId, sectionId, taskId, [type |-> "numeric"])
    \/ \E memberId \in MemberIds, sectionId \in SectionIds, taskId \in TaskIds :
          deleteTask(memberId, sectionId, taskId)
    \/ loadSettings
    \/ \E date \in Dates : loadEntriesForMonth(getMonthKey(date))
    \/ StoreGetItemDone
    \/ SettingsGetItemDone
    \/ StoreSetItemDone

SpecApp == InitApp /\ [][NextApp]_vars

\* the Drive file that mirrors the AsyncStorage key k
RemoteName(k) ==
    IF k = AppSettingsKey THEN SettingsFileName ELSE MonthFileName(Tail(k))

\* Drive holds, in some folder, a copy of the text stored under key k
RemoteHolds(k) ==
    \E id \in DOMAIN files :
       id.name = RemoteName(k) /\ files[id] = asyncStorage[k]

\* nothing is left to do: no request of a store is outstanding and no
\* StorageService call is in flight
Quiescent == pending = << >> /\ ~InFlight(call)

\* C11: in online mode every mutation of entries and of settings leads to a
\* write of the affected unit to the remote store after the local write:
\* once nothing is left to do, every unit written locally by a mutation of
\* this session has an equal copy on Drive.
C11_MutationsReachRemote ==
    (isOnline /\ Quiescent) =>
        \A k \in DOMAIN asyncStorage :
           JSONparse(asyncStorage[k]).lastModified >= 1 => RemoteHolds(k)

----------------------------------------------------------------------------
(* The journal of one member over two sections of two tasks each; the     *)
(* user makes the next edit when the requests of the last one are settled  *)

\* what an earlier session left under entries_2025-01: one day with both
\* sections, answers to both tasks of the first, and a note
StoredMonth ==
    [month |-> M1,
     entries |-> << [date |-> Today, memberId |-> "m1",
                     sectionEntries |->
                        << [sectionId |-> "s1",
                            taskResponses |-> << [taskId |-> "t1", value |-> TRUE],
                                                 [taskId |-> "t2", value |-> FALSE] >>,
                            notes |-> "note"],
                           [sectionId |-> "s2", taskResponses |-> << >>,
                            notes |-> ""] >>,
                     lastModified |-> 0] >>,
     lastModified |-> 0]

\* the arguments the journal screen passes
JournalMembers == {"m1"}
JournalSections == {"s1", "s2"}
JournalTasks == {"t1", "t2"}

InitEntries ==
    /\ asyncStorage \in { << >>, EntriesKey(M1) :> JSONstringify(StoredMonth) }
    /\ ServiceInit
    /\ folders = {} /\ files = << >>
    /\ StoreInit

NextEntries ==
    \/ \E memberId \in JournalMembers, date \in Dates,
          sectionId \in JournalSections, taskId \in JournalTasks :
          /\ pending = << >>
          /\ updateTaskResponse(memberId, date, sectionId, taskId, TRUE)
    \/ \E memberId \in JournalMembers, date \in Dates,
          sectionId \in JournalSections :
          /\ pending = << >>
          /\ updateSectionNotes(memberId, date, sectionId, "text")
    \/ \E date \in Dates :
          \* the journal screen loads its month when it is mounted
          /\ pending = << >>
          /\ entries = << >>
          /\ loadEntriesForMonth(getMonthKey(date))
    \/ StoreGetItemDone
    \/ StoreSetItemDone

SpecEntries == InitEntries /\ [][NextEntries]_vars

\* the entries the store holds after updateTaskResponse(...) called on map
AfterTaskResponse(map, memberId, date, sectionId, taskId, value, now) ==
    EntriesWith(map,
                TaskResponseEntry(MapGet(map, getEntryKey(memberId, date)),
                                  memberId, date, sectionId, taskId, value, now),
                now)

\* the entries without their lastModified stamps
IgnoreStamps(map) ==
    [i \in DOMAIN map |-> [k |-> map[i].k,
                            v |-> [map[i].v EXCEPT !.lastModified = 0]]]

\* the task responses of entry e that answer taskId in section sectionId
ResponsesOf(e, sectionId, taskId) ==
    { << i, j >> \in (DOMAIN e.sectionEntries) \X (1..4) :
         /\ e.sectionEntries[i].sectionId = sectionId
         /\ j \in DOMAIN e.sectionEntries[i].taskResponses
         /\ e.sectionEntries[i].taskResponses[j].taskId = taskId }

\* C12: for all arguments and every store state, updateTaskResponse called
\* twice with the same arguments leaves the same entries (lastModified
\* apart) as called once, and the entry holds one TaskResponse of taskId.
C12_UpdateTaskResponseIdempotent ==
    \A memberId \in JournalMembers \cup MemberIds, date \in Dates,
       sectionId \in JournalSections, taskId \in JournalTasks, value \in BOOLEAN :
       LET once == AfterTaskResponse(entries, memberId, date, sectionId, taskId,
                                     value, clock + 1)
           twice == AfterTaskResponse(once, memberId, date, sectionId, taskId,
                                      value, clock + 2)
       IN  /\ IgnoreStamps(twice) = IgnoreStamps(once)
           /\ Cardinality(ResponsesOf(MapGet(twice, getEntryKey(memberId, date)),
                                      sectionId, taskId)) = 1

\* the same task of a new entry was answered by both edits of the session:
\* the entry holds one response
C12_Witness ==
    /\ clock = 2
    /\ Len(entries) = 1
    /\ entries[1].v.lastModified = 2
    /\ entries[1].v.date # Today
    /\ Len(entries[1].v.sectionEntries) = 1
    /\ entries[1].v.sectionEntries[1].notes = ""
    /\ Len(entries[1].v.sectionEntries[1].taskResponses) = 1

\* no two elements of the sequence seq have the same key
Distinct(seq, key(_)) ==
    \A i, j \in DOMAIN seq : key(seq[i]) = key(seq[j]) => i = j

\* C13: starting from an empty store, after any sequence of
\* updateTaskResponse and updateSectionNotes calls every DailyEntry in memory
\* has at most one SectionEntry per sectionId and every SectionEntry has at
\* most one TaskResponse per taskId.
C13_OnePerSectionAndTask ==
    \A n \in DOMAIN entries :
       /\ Distinct(entries[n].v.sectionEntries, LAMBDA se : se.sectionId)
       /\ \A i \in DOMAIN entries[n].v.sectionEntries :
             Distinct(entries[n].v.sectionEntries[i].taskResponses,
                      LAMBDA tr : tr.taskId)

\* two edits of the session built an entry of two sections, or of a section
\* with two answers
C13_Witness ==
    \E n \in DOMAIN entries :
       /\ entries[n].v.date # Today
       /\ entries[n].v.lastModified = 2
       /\ \/ Len(entries[n].v.sectionEntries) = 2
          \/ Len(entries[n].v.sectionEntries[1].taskResponses) = 2

\* the task responses of a section other than those of taskId, in order
OtherResponses(se, taskId) ==
    SelectSeq(se.taskResponses, LAMBDA tr : tr.taskId # taskId)

\* what updateTaskResponse(memberId, date, sectionId, taskId, value) may
\* change between the entries `old` and `new`
TaskResponseFrame(old, new, memberId, date, sectionId, taskId, value) ==
    LET key == getEntryKey(memberId, date)
        e == MapGet(old, key)
        e2 == MapGet(new, key)
        ses == IF e = Null THEN << >> ELSE e.sectionEntries
    IN  \* every other DailyEntry is as before, and none was added or removed
        /\ Len(new) = Len(old) + (IF e = Null THEN 1 ELSE 0)
        /\ \A i \in DOMAIN old : old[i].k # key => new[i] = old[i]
        \* the entry answers taskId in sectionId with value, once
        /\ e2 # Null /\ e2.memberId = memberId /\ e2.date = date
        /\ \E i \in DOMAIN e2.sectionEntries :
              /\ e2.sectionEntries[i].sectionId = sectionId
              /\ \E j \in DOMAIN e2.sectionEntries[i].taskResponses :
                    e2.sectionEntries[i].taskResponses[j] =
                        [taskId |-> taskId, value |-> value]
        /\ Cardinality(ResponsesOf(e2, sectionId, taskId)) = 1
        \* the sections the entry had are in place
        /\ Len(e2.sectionEntries) \in { Len(ses), Len(ses) + 1 }
        /\ Len(e2.sectionEntries) = Len(ses) + 1 =>
              /\ \A i \in DOMAIN ses : ses[i].sectionId # sectionId
              /\ e2.sectionEntries[Len(ses) + 1].notes = ""
              /\ OtherResponses(e2.sectionEntries[Len(ses) + 1], taskId) = << >>
        /\ \A i \in DOMAIN ses :
              IF ses[i].sectionId # sectionId
              THEN e2.sectionEntries[i] = ses[i]
              ELSE /\ e2.sectionEntries[i].sectionId = sectionId
                   /\ e2.sectionEntries[i].notes = ses[i].notes
                   /\ OtherResponses(e2.sectionEntries[i], taskId) =
                         OtherResponses(ses[i], taskId)

\* C14: updateTaskResponse(m, d, s, t, v) sets the response of task t in
\* section s of entry (m, d) to v and leaves unchanged every other
\* DailyEntry, every other SectionEntry of the entry, the notes of section s
\* and the TaskResponses of section s of another taskId, in their order.
C14_UpdateTaskResponseFrame ==
    \A memberId \in JournalMembers \cup MemberIds, date \in Dates,
       sectionId \in JournalSections, taskId \in JournalTasks, value \in BOOLEAN :
       TaskResponseFrame(entries,
                         AfterTaskResponse(entries, memberId, date, sectionId,
                                           taskId, value, clock + 1),
                         memberId, date, sectionId, taskId, value)

\* the loaded day was answered anew for its second task: the first answer,
\* the note and the second section are as stored
C14_Witness ==
    \E n \in DOMAIN entries :
       entries[n].v =
          [StoredMonth.entries[1] EXCEPT
              !.sectionEntries[1].taskResponses[2].value = TRUE,
              !.lastModified = 1]

----------------------------------------------------------------------------
(* Range queries (getEntriesForRange).  The dates are 'yyyy-MM-dd' strings, *)
(* which the code compares as strings: a date is spelled out as its code    *)
(* units to compare it the same way.                                        *)

\* the code units of the decimal digits of n over `width` places
Digits(n, width) == [i \in 1..width |-> 48 + ((n \div (10 ^ (width - i))) % 10)]

\* format(date, 'yyyy-MM-dd') as code units ('-' is 45)
DateString(date) ==
    << 48 + ((date.y \div 1000) % 10), 48 + ((date.y \div 100) % 10),
       48 + ((date.y \div 10) % 10), 48 + (date.y % 10), 45,
       48 + ((date.m \div 10) % 10), 48 + (date.m % 10), 45,
       48 + ((date.d \div 10) % 10), 48 + (date.d % 10) >>

\* a < b for strings: the first differing code unit decides, a proper
\* prefix comes first
StringLess(a, b) ==
    \E x \in {a}, y \in {b} :
       LET differ == { i \in 1..Len(x) : i <= Len(y) /\ x[i] # y[i] }
       IN  IF differ = {} THEN Len(x) < Len(y)
           ELSE \E i \in differ : /\ \A j \in differ : i <= j
                                   /\ x[i] < y[i]

\* a <= b for strings
StringLeq(a, b) == a = b \/ StringLess(a, b)

\* a.localeCompare(b) on date strings
localeCompare(a, b) == IF a = b THEN 0 ELSE IF StringLess(a, b) THEN -1 ELSE 1

\* (mutant) the result is returned in the order of the Map
Unsorted(seq) == seq

\* one step of the sort: the entry goes behind the entries of earlier dates
\* and before the others
InsertByDate(entry, sorted) ==
    LET before == SelectSeq(sorted, LAMBDA e :
                     localeCompare(DateString(e.date),
                                   DateString(entry.date)) < 0)
    IN  before \o << entry >> \o SubSeq(sorted, Len(before) + 1, Len(sorted))

\* result.sort((a, b) => a.date.localeCompare(b.date)): a stable sort
SortByDate(seq) ==
    LET Sorted[n \in 0..Len(seq)] ==
            IF n = 0 THEN << >>
            ELSE InsertByDate(seq[Len(seq) - n + 1], Sorted[n - 1])
    IN  Sorted[Len(seq)]

\* getEntriesForRange(memberId, startDate, endDate) on the Map `map`
getEntriesForRange(map, memberId, startDate, endDate) ==
    LET values == [i \in DOMAIN map |-> map[i].v]
        result == SelectSeq(values, LAMBDA entry :
                     /\ entry.memberId = memberId
                     /\ StringLeq(DateString(startDate), DateString(entry.date))
                     /\ StringLeq(DateString(entry.date), DateString(endDate)))
    IN  SortByDate(result)

\* the days the dashboard asks for and the journal is kept on
RangeDates ==
    { [y |-> 2024, m |-> 12, d |-> 31], [y |-> 2025, m |-> 1, d |-> 1],
      [y |-> 2025, m |-> 1, d |-> 2], [y |-> 2025, m |-> 2, d |-> 1] }

\* a stored month whose entries are not in the order of their dates
StoredRange ==
    [month |-> M1,
     entries |-> << [date |-> [y |-> 2025, m |-> 1, d |-> 2], memberId |-> "m1",
                     sectionEntries |-> << >>, lastModified |-> 0],
                    [date |-> [y |-> 2025, m |-> 1, d |-> 1], memberId |-> "m2",
                     sectionEntries |-> << >>, lastModified |-> 0],
                    [date |-> [y |-> 2025, m |-> 1, d |-> 1], memberId |-> "m1",
                     sectionEntries |-> << >>, lastModified |-> 0] >>,
     lastModified |-> 0]

InitRange ==
    /\ asyncStorage \in { << >>, EntriesKey(M1) :> JSONstringify(StoredRange) }
    /\ ServiceInit
    /\ folders = {} /\ files = << >>
    /\ StoreInit

NextRange ==
    \/ \E memberId \in MemberIds, date \in RangeDates :
          /\ pending = << >>
          /\ updateTaskResponse(memberId, date, "s1", "t1", TRUE)
    \/ /\ pending = << >>
       /\ loadEntriesForMonth(M1)
    \/ StoreGetItemDone
    \/ StoreSetItemDone

SpecRange == InitRange /\ [][NextRange]_vars

\* the day number of a date: later days have larger numbers
DayNumber(date) == (date.y * 12 + (date.m - 1)) * 31 + (date.d - 1)

\* C15: getEntriesForRange(memberId, start, end) returns exactly the
\* in-memory entries of memberId whose date d satisfies start <= d <= end,
\* both bounds included, each once, in ascending order of date.
C15_RangeExactAndSorted ==
    \A memberId \in MemberIds, startDate \in RangeDates, endDate \in RangeDates :
       LET result == getEntriesForRange(entries, memberId, startDate, endDate)
           wanted == { n \in DOMAIN entries :
                         /\ entries[n].v.memberId = memberId
                         /\ DayNumber(startDate) <= DayNumber(entries[n].v.date)
                         /\ DayNumber(entries[n].v.date) <= DayNumber(endDate) }
       IN  /\ { result[i] : i \in DOMAIN result } = { entries[n].v : n \in wanted }
           /\ Len(result) = Cardinality(wanted)
           /\ \A i, j \in DOMAIN result :
                 i < j => DayNumber(result[i].date) < DayNumber(result[j].date)

\* the Map holds two days of one member, the later one first, next to a day
\* of the other member and a day of the year before
C15_Witness ==
    /\ \E i, j \in DOMAIN entries :
          /\ i < j
          /\ entries[i].v.memberId = "m1" /\ entries[j].v.memberId = "m1"
          /\ DayNumber(entries[i].v.date) > DayNumber(entries[j].v.date)
    /\ \E n \in DOMAIN entries : entries[n].v.memberId = "m2"
    /\ \E n \in DOMAIN entries : entries[n].v.date.y = 2024
    /\ Len(getEntriesForRange(entries, "m1", [y |-> 2024, m |-> 12, d |-> 31],
                              [y |-> 2025, m |-> 1, d |-> 2])) >= 2

----------------------------------------------------------------------------
(* Order of the local writes of the entries store *)

\* one session of mutating calls: nothing is stored yet, the user answers
\* tasks and writes notes, and the writes settle
InitWrites == InitStore

NextWrites ==
    \/ \E memberId \in MemberIds, date \in Dates, sectionId \in SectionIds,
          taskId \in TaskIds, value \in BOOLEAN :
          updateTaskResponse(memberId, date, sectionId, taskId, value)
    \/ \E memberId \in MemberIds, date \in Dates, sectionId \in SectionIds :
          updateSectionNotes(memberId, date, sectionId, "note")
    \/ StoreSetItemDone

SpecWrites == InitWrites /\ [][NextWrites]_vars

\* the positions of the outstanding writes to the blob of a month
WritesTo(queue, month) ==
    { i \in DOMAIN queue :
        queue[i].op = "set" /\ queue[i].key = EntriesKey(month) }

\* the blob stored under entries_<month>, Null when there is none
StoredBlob(store, month) ==
    LET text == GetItem(store, EntriesKey(month))
    IN  IF text # Null /\ CanParse(text) THEN JSONparse(text) ELSE Null

\* the outstanding writes to one key are in the order of the mutating calls
\* that issued them
WritesInCallOrder ==
    \A date \in Dates :
       \A i, j \in WritesTo(pending, getMonthKey(date)) :
          i < j => JSONparse(pending[i].text).lastModified
                     < JSONparse(pending[j].text).lastModified

\* the write issued last to a key carries every mutation made so far
LastWriteIsSnapshot ==
    \A date \in Dates :
       LET month == getMonthKey(date)
           ws == WritesTo(pending, month)
       IN  ws # {} =>
             LET last == CHOOSE i \in ws : \A j \in ws : j <= i
             IN  /\ JSONparse(pending[last].text).entries
                      = MonthEntries(entries, month)
                 /\ JSONparse(pending[last].text).lastModified = clock

\* C16 as stated: once no write is outstanding, the blob under every
\* written key entries_<month> equals the entries of that month held in
\* memory.
C16_LastWriteWins ==
    pending = << >> =>
       \A n \in DOMAIN MonthsInOrder(entries) :
          LET month == MonthsInOrder(entries)[n]
          IN  /\ StoredBlob(asyncStorage, month) # Null
              /\ StoredBlob(asyncStorage, month).entries
                   = MonthEntries(entries, month)

\* C16: in one session of mutating calls the writes to one key
\* entries_<month> are outstanding in the order of the calls, the last
\* issued one carries every mutation made so far, and once no write is
\* outstanding the blob of every month whose last issued write succeeded
\* equals the entries of that month held in memory; a month whose last
\* write failed keeps an older blob or none.
C16_LastSuccessfulWriteWins ==
    /\ WritesInCallOrder
    /\ LastWriteIsSnapshot
    /\ pending = << >> =>
          \A n \in DOMAIN MonthsInOrder(entries) :
             LET month == MonthsInOrder(entries)[n]
                 blob == StoredBlob(asyncStorage, month)
             IN  \/ blob = Null
                 \/ blob.lastModified < clock
                 \/ blob.entries = MonthEntries(entries, month)

\* two mutating calls were made one after the other on entries of the same
\* month before any write settled, both writes have settled, and the blob
\* holds both entries
C16_Witness ==
    /\ pending = << >>
    /\ clock >= 2
    /\ LET blob == StoredBlob(asyncStorage, getMonthKey(Today))
       IN  /\ blob # Null
           /\ blob.lastModified = clock
           /\ Len(blob.entries) = 2
           /\ blob.entries = MonthEntries(entries, getMonthKey(Today))

----------------------------------------------------------------------------
(* Partition of a flush by month *)

\* the code units of a month string yyyy-MM
MonthString(month) ==
    Digits(month[1].y, 4) \o << 45 >> \o Digits(month[1].m, 2)

\* the places << request, position >> at which a flush holds an entry
HoldersOf(flush, entry) ==
    { h \in { << n, p >> : n \in DOMAIN flush, p \in 1..Len(entries) } :
        /\ h[2] \in DOMAIN JSONparse(flush[h[1]].text).entries
        /\ JSONparse(flush[h[1]].text).entries[h[2]] = entry }

\* C17: in a flush of saveEntriesToStorage every DailyEntry held in
\* memory is written at exactly one place, in the blob keyed entries_<M>
\* with M the first seven characters (yyyy-MM) of its date; no two blobs
\* of the flush share a key, and each blob has month M and holds only
\* entries whose date begins with M.
C17_FlushPartitionsByMonth ==
    LET flush == SaveRequests(entries, clock)
    IN  /\ \A i \in DOMAIN entries :
              LET holders == HoldersOf(flush, entries[i].v)
              IN  /\ Cardinality(holders) = 1
                  /\ \A h \in holders :
                        /\ flush[h[1]].key
                             = EntriesKey(JSONparse(flush[h[1]].text).month)
                        /\ MonthString(JSONparse(flush[h[1]].text).month)
                             = SubSeq(DateString(entries[i].v.date), 1, 7)
        /\ \A n, k \in DOMAIN flush : n # k => flush[n].key # flush[k].key
        /\ \A n \in DOMAIN flush :
              LET blob == JSONparse(flush[n].text)
              IN  /\ flush[n].key = EntriesKey(blob.month)
                  /\ \A p \in DOMAIN blob.entries :
                        SubSeq(DateString(blob.entries[p].date), 1, 7)
                          = MonthString(blob.month)

\* a flush has just issued its writes: entries of three months are held in
\* memory, two of them in the same month, and one write per month is
\* outstanding
C17_Witness ==
    /\ pending = SaveRequests(entries, clock)
    /\ Len(pending) = 3
    /\ Len(entries) >= 4

----------------------------------------------------------------------------
(* A rejected local write of the entries store *)

\* C18: when a write issued by updateTaskResponse / updateSectionNotes
\* (through setEntry) is rejected, the call that issued it has returned
\* before, no rejection is left unhandled, the entries held in memory are
\* not touched, and every entry of the rejected snapshot is still held in
\* memory with the value of that snapshot or a later one.
C18_FailedWriteIsSilent ==
    [][ ( /\ pending # << >>
          /\ Head(pending).op = "set"
          /\ pending' = Tail(pending)
          /\ GetItem(asyncStorage', Head(pending).key) # Head(pending).text )
        => ( /\ ~unhandled'
             /\ entries' = entries
             /\ clock' = clock
             /\ JSONparse(Head(pending).text).lastModified <= clock
             /\ LET snapshot == JSONparse(Head(pending).text).entries
                IN  \A n \in DOMAIN snapshot :
                       LET held == MapGet(entries',
                                          getEntryKey(snapshot[n].memberId,
                                                      snapshot[n].date))
                       IN  /\ held # Null
                           /\ held.lastModified >= snapshot[n].lastModified
                           /\ held.lastModified = snapshot[n].lastModified
                                => held = snapshot[n] ) ]_vars

\* the only write of a month was rejected: nothing is outstanding, the
\* answered entry is held in memory and no blob of its month is stored
C18_Witness ==
    /\ pending = << >>
    /\ clock = 1
    /\ ~unhandled
    /\ \E n \in DOMAIN entries :
          /\ entries[n].v.lastModified = 1
          /\ StoredBlob(asyncStorage, getMonthKey(entries[n].v.date)) = Null

----------------------------------------------------------------------------
(* The calendar of date-fns, as the screens use it *)

\* the number of days from 1970-01-01 to a date of the civil calendar
DaysFromCivil(date) ==
    LET y   == IF date.m <= 2 THEN date.y - 1 ELSE date.y
        era == y \div 400
        yoe == y - era * 400
        mp  == IF date.m > 2 THEN date.m - 3 ELSE date.m + 9
        doy == (153 * mp + 2) \div 5 + date.d - 1
        doe == yoe * 365 + yoe \div 4 - yoe \div 100 + doy
    IN  era * 146097 + doe - 719468

\* the date of the civil calendar that many days after 1970-01-01
CivilFromDays(days) ==
    LET z   == days + 719468
        era == z \div 146097
        doe == z - era * 146097
        yoe == (doe - doe \div 1460 + doe \div 36524 - doe \div 146096) \div 365
        doy == doe - (365 * yoe + yoe \div 4 - yoe \div 100)
        mp  == (5 * doy + 2) \div 153
        d   == doy - (153 * mp + 2) \div 5 + 1
        m   == IF mp < 10 THEN mp + 3 ELSE mp - 9
    IN  [y |-> yoe + era * 400 + (IF m <= 2 THEN 1 ELSE 0), m |-> m, d |-> d]

\* format(subDays(date, amount), 'yyyy-MM-dd')
subDays(date, amount) == CivilFromDays(DaysFromCivil(date) - amount)

\* differenceInDays(a, parseISO(b)) of two days at midnight
differenceInDays(a, b) == DaysFromCivil(a) - DaysFromCivil(b)

\* (mutant) the week begins on Monday
getDayMondayFirst(date) == (DaysFromCivil(date) + 3) % 7

\* getDay(parseISO(date)): 0 is Sunday; 1970-01-01 was a Thursday
getDay(date) == (DaysFromCivil(date) + 4) % 7

\* Math.round(num / den) of non-negative numbers
MathRound(num, den) == (2 * num + den) \div (2 * den)

----------------------------------------------------------------------------
(* The dashboard: what it derives from the configuration and the entries *)

\* array.find: the first element that satisfies the test, Null for undefined
Find(seq, test(_)) ==
    IF \E i \in DOMAIN seq : test(seq[i])
    THEN seq[CHOOSE i \in DOMAIN seq :
                 test(seq[i]) /\ \A j \in 1..(i - 1) : ~test(seq[j])]
    ELSE Null

\* useState<string | null>(null): nothing is selected
NoSelection == "none"

\* two of the date ranges the dashboard offers, in days
DateRanges == {7, 30}

\* line 122
selectedMember(ms, selectedMemberId) ==
    Find(ms, LAMBDA m : m.id = selectedMemberId)

\* line 190: selectedMember?.sections.find(...)
selectedSection(ms, selectedMemberId, selectedSectionId) ==
    LET member == selectedMember(ms, selectedMemberId)
    IN  IF member = Null THEN Null
        ELSE Find(member.sections, LAMBDA sec : sec.id = selectedSectionId)

\* lines 193-199: the entries of the selected member of the last 365 days
allEntries(map, selectedMemberId, today) ==
    IF selectedMemberId = NoSelection THEN << >>
    ELSE getEntriesForRange(map, selectedMemberId, subDays(today, 365), today)

\* lines 202-216: the first date on which the section has an entry
firstEntryDate(section, all) ==
    IF section = Null \/ Len(all) = 0 THEN Null
    ELSE LET entriesWithSection ==
                 SelectSeq(all, LAMBDA e :
                    \E i \in DOMAIN e.sectionEntries :
                       e.sectionEntries[i].sectionId = section.id)
         IN  IF Len(entriesWithSection) = 0 THEN Null
             ELSE SortByDate(entriesWithSection)[1].date

\* lines 219-231: the entries of the selected range, from the first entry on
rangeEntries(map, selectedMemberId, dateRange, first, today) ==
    IF selectedMemberId = NoSelection THEN << >>
    ELSE LET requested == subDays(today, dateRange - 1)
             startDate == IF first # Null /\ StringLess(DateString(requested),
                                                        DateString(first))
                          THEN first ELSE requested
         IN  getEntriesForRange(map, selectedMemberId, startDate, today)

\* lines 234-240
effectiveDays(first, dateRange, today) ==
    IF first = Null THEN 0
    ELSE LET daysSinceFirstEntry == differenceInDays(today, first) + 1
         IN  IF dateRange <= daysSinceFirstEntry THEN dateRange
             ELSE daysSinceFirstEntry

\* the checkbox tasks of a section
CheckboxTasks(section) == SelectSeq(section.tasks, LAMBDA t : t.type = "checkbox")

\* lines 265-269: the number of checkbox tasks answered true
CompletedCount(tasks, sectionEntry) ==
    Cardinality({ n \in DOMAIN tasks :
        LET response == Find(sectionEntry.taskResponses,
                             LAMBDA tr : tr.taskId = tasks[n].id)
        IN  response # Null /\ response.value = TRUE })

\* lines 243-279: the completion chart of the selected section, Null when
\* there is nothing to chart
checkboxData(section, ents, days, first, today) ==
    IF section = Null \/ first = Null \/ days = 0 THEN Null
    ELSE
    LET checkboxTasks == CheckboxTasks(section)
        shown == SelectSeq([k \in 1..days |-> subDays(today, days - k)],
                           LAMBDA date : ~StringLess(DateString(date),
                                                     DateString(first)))
        percent(date) ==
            LET entry == Find(ents, LAMBDA e : e.date = date)
                sectionEntry ==
                    IF entry = Null THEN Null
                    ELSE Find(entry.sectionEntries,
                              LAMBDA se : se.sectionId = section.id)
            IN  IF sectionEntry # Null
                THEN MathRound(100 * CompletedCount(checkboxTasks, sectionEntry),
                               Len(checkboxTasks))
                ELSE 0
        data == [k \in DOMAIN shown |-> percent(shown[k])]
        Sum[k \in 0..Len(data)] == IF k = 0 THEN 0 ELSE Sum[k - 1] + data[k]
    IN  IF Len(checkboxTasks) = 0 \/ Len(data) = 0 THEN Null
        ELSE [labels |-> [k \in DOMAIN shown |-> << shown[k].m, shown[k].d >>],
              data |-> data,
              taskCount |-> Len(checkboxTasks),
              average |-> MathRound(Sum[Len(data)], Len(data))]

\* lines 314-343: the days in a row, from today backwards, on which every
\* checkbox task of the section is answered true
streak(section, all, today) ==
    IF section = Null THEN 0
    ELSE
    LET checkboxTasks == CheckboxTasks(section)
        Walk[i \in 0..365] ==
            IF i = 365 THEN 0
            ELSE LET entry == Find(all, LAMBDA e : e.date = subDays(today, i))
                     sectionEntry ==
                         IF entry = Null THEN Null
                         ELSE Find(entry.sectionEntries,
                                   LAMBDA se : se.sectionId = section.id)
                 IN  IF /\ sectionEntry # Null
                        /\ CompletedCount(checkboxTasks, sectionEntry)
                             = Len(checkboxTasks)
                     THEN 1 + Walk[i + 1]
                     ELSE 0
    IN  IF Len(checkboxTasks) = 0 THEN 0 ELSE Walk[0]

----------------------------------------------------------------------------
(* Deleting a member *)

\* the ids a screen can still have selected: of members and sections that
\* exist or were deleted
SelectableIds == MemberIds \cup SectionIds \cup { generateId(n) : n \in 1..MaxEdits }

\* the settings are stored; the user loads them, answers tasks of today,
\* and adds and deletes members and sections
InitMembers ==
    /\ asyncStorage = AppSettingsKey :> JSONstringify(StoredSettings)
    /\ ServiceInit
    /\ folders = {} /\ files = << >>
    /\ StoreInit

NextMembers ==
    \/ /\ pending = << >>
       /\ loadSettings
    \/ SettingsGetItemDone
    \/ \E memberId \in MemberIds :
          /\ pending = << >>
          /\ updateTaskResponse(memberId, Today, "s1", "t1", TRUE)
    \/ /\ pending = << >>
       /\ addMember("n2", "c1")
    \/ \E id \in SelectableIds :
          /\ pending = << >>
          /\ deleteMember(id)
    \/ /\ pending = << >>
       /\ deleteSection("m1", "s1")
    \/ StoreSetItemDone

SpecMembers == InitMembers /\ [][NextMembers]_vars

\* a step of deleteMember that removes a member
DeletesMember == Len(members') < Len(members) /\ Len(pending') > Len(pending)

\* a write of saveSettings settles
SettingsWriteSettles ==
    /\ pending # << >>
    /\ Head(pending).op = "set"
    /\ Head(pending).key = AppSettingsKey
    /\ pending' = Tail(pending)

\* the blobs entries_<month> are the same in both stores
SameEntriesBlobs(before, after) ==
    \A k \in (DOMAIN before) \cup (DOMAIN after) :
       StartsWithEntries(k) => GetItem(before, k) = GetItem(after, k)

\* deleteMember and the write it issues leave the entries alone
DeleteMemberFrame ==
    /\ DeletesMember =>
          /\ \E id \in MemberIds \cup SelectableIds :
                /\ members' = SelectSeq(members, LAMBDA m : m.id # id)
                /\ Len(members') = Len(members) - 1
          /\ entries' = entries
          /\ asyncStorage' = asyncStorage
          /\ pending' = Append(pending, SettingsRequest(members', clock'))
    /\ SettingsWriteSettles =>
          /\ entries' = entries
          /\ SameEntriesBlobs(asyncStorage, asyncStorage')

\* the dashboard of a member or a section that the configuration no longer
\* has charts nothing and shows a streak of 0
OrphanAnalyticsEmpty ==
    \A selectedMemberId \in SelectableIds, selectedSectionId \in SelectableIds,
       dateRange \in DateRanges :
       LET section == selectedSection(members, selectedMemberId, selectedSectionId)
           all     == allEntries(entries, selectedMemberId, Today)
           first   == firstEntryDate(section, all)
           ents    == rangeEntries(entries, selectedMemberId, dateRange, first,
                                   Today)
           days    == effectiveDays(first, dateRange, Today)
       IN  section = Null =>
              /\ checkboxData(section, ents, days, first, Today) = Null
              /\ streak(section, all, Today) = 0

\* C19: deleteMember(id) removes that member and no other from the
\* settings, leaves the entries held in memory unchanged, and neither it
\* nor the write it issues changes a blob entries_<month>; for a selected
\* member or section that the configuration does not have, the dashboard
\* computes no completion chart and a streak of 0, without error.
C19_DeleteMemberLeavesEntries ==
    /\ [][DeleteMemberFrame]_vars
    /\ []OrphanAnalyticsEmpty

\* member m1 was deleted and the settings without it are stored, while an
\* entry of m1 is held in memory and in the blob of its month
C19_Witness ==
    /\ pending = << >>
    /\ selectedMember(members, "m1") = Null
    /\ LET stored == GetItem(asyncStorage, AppSettingsKey)
       IN  /\ stored # Null
           /\ JSONparse(stored).members = << >>
           /\ JSONparse(stored).lastModified >= 1
    /\ MapGet(entries, getEntryKey("m1", Today)) # Null
    /\ Persisted(asyncStorage, "m1", Today)
    /\ Len(allEntries(entries, "m1", Today)) = 1

----------------------------------------------------------------------------
(* The visibility schedule of a task *)

\* taskScheduleUtils.isTaskVisibleOnDate(task, date)
isTaskVisibleOnDate(task, date) ==
    IF \/ ~("schedule" \in DOMAIN task /\ task.schedule.enabled)
       \/ Len(task.schedule.days) = 0
    THEN TRUE
    ELSE \E i \in DOMAIN task.schedule.days :
            task.schedule.days[i] = getDay(date)

\* the day lists the schedule editor is given
ScheduleDays == { << >>, << 0 >>, << 3 >>, << 1, 3, 5 >>, << 6, 0 >> }
\* TaskSchedule values
Schedules == [enabled : BOOLEAN, days : ScheduleDays]
\* the days the journal is opened on: 2025-01-01 .. 2025-01-08
WeekDates == { [y |-> 2025, m |-> 1, d |-> d] : d \in 1..8 }

\* the settings are stored; the user loads them, edits the schedule of the
\* task and walks through the days of a week
InitSchedule ==
    /\ asyncStorage = AppSettingsKey :> JSONstringify(StoredSettings)
    /\ ServiceInit
    /\ folders = {} /\ files = << >>
    /\ StoreInit

NextSchedule ==
    \/ /\ pending = << >>
       /\ loadSettings
    \/ SettingsGetItemDone
    \/ \E schedule \in Schedules :
          /\ pending = << >>
          /\ updateTask("m1", "s1", "t1", [schedule |-> schedule])
    \/ \E date \in WeekDates :
          /\ pending = << >>
          /\ setCurrentDate(date)
    \/ StoreGetItemDone
    \/ StoreSetItemDone

SpecSchedule == InitSchedule /\ [][NextSchedule]_vars

\* the tasks of the configuration
ConfiguredTasks ==
    { members[i].sections[j].tasks[k] :
        << i, j, k >> \in
           { x \in (DOMAIN members) \X (1..2) \X (1..2) :
               /\ x[2] \in DOMAIN members[x[1]].sections
               /\ x[3] \in DOMAIN members[x[1]].sections[x[2]].tasks } }

\* the day of the week of a day of January 2025, 0 for Sunday: the 5th
\* was a Sunday
JanuaryWeekday(date) == (date.d + 2) % 7

\* C20: a task without schedule, with a disabled schedule or with an empty
\* list of days is visible on every date; a task with an enabled schedule
\* and a non-empty list of days is visible on a date exactly when the day
\* of the week of the date (0 = Sunday) is in the list.
C20_VisibleOnScheduledDays ==
    \A task \in ConfiguredTasks, date \in WeekDates \cup {currentDate} :
       IF \/ "schedule" \notin DOMAIN task
          \/ ~task.schedule.enabled
          \/ task.schedule.days = << >>
       THEN isTaskVisibleOnDate(task, date)
       ELSE isTaskVisibleOnDate(task, date)
              <=> \E i \in DOMAIN task.schedule.days :
                     task.schedule.days[i] = JanuaryWeekday(date)

\* the task is scheduled for Mondays, Wednesdays and Fridays; the journal
\* is open on Monday 2025-01-06, where the task is visible, and it is
\* hidden on Sunday the 5th and visible on Wednesday the 1st
C20_Witness ==
    /\ currentDate = [y |-> 2025, m |-> 1, d |-> 6]
    /\ \E task \in ConfiguredTasks :
          /\ "schedule" \in DOMAIN task
          /\ task.schedule = [enabled |-> TRUE, days |-> << 1, 3, 5 >>]
          /\ isTaskVisibleOnDate(task, currentDate)
          /\ ~isTaskVisibleOnDate(task, [y |-> 2025, m |-> 1, d |-> 5])
          /\ isTaskVisibleOnDate(task, [y |-> 2025, m |-> 1, d |-> 1])

----------------------------------------------------------------------------
(* The dashboard in use *)

\* the configuration the dashboard is opened with: one member, one section
\* with two checkbox tasks and a numeric one
DashboardSettings ==
    [members |-> << [id |-> "m1", name |-> "n1", color |-> "c1",
                     sections |-> << [id |-> "s1", name |-> "n1",
                                      tasks |-> << [id |-> "t1", name |-> "n1",
                                                    type |-> "checkbox"],
                                                   [id |-> "t2", name |-> "n2",
                                                    type |-> "checkbox"],
                                                   [id |-> "t3", name |-> "n3",
                                                    type |-> "numeric"] >>] >>] >>,
     lastModified |-> 0]

\* the month before today's
M0 == << MonthTok(2024, 12) >>

\* a day of the journal of m1 with both checkbox tasks answered true
FullDay(date) ==
    [date |-> date, memberId |-> "m1",
     sectionEntries |-> << [sectionId |-> "s1",
                            taskResponses |-> << [taskId |-> "t1", value |-> TRUE],
                                                 [taskId |-> "t2", value |-> TRUE] >>,
                            notes |-> ""] >>,
     lastModified |-> 0]

\* the stored month before today's: Monday the 30th and Tuesday the 31st
StoredDecember ==
    [month |-> M0,
     entries |-> << FullDay([y |-> 2024, m |-> 12, d |-> 30]),
                    FullDay([y |-> 2024, m |-> 12, d |-> 31]) >>,
     lastModified |-> 0]

\* the days answered on the journal screen: today and the day before
DashboardDates == { Today, [y |-> 2024, m |-> 12, d |-> 31] }

\* the schedules given to task t2: Mondays only, Wednesdays only, switched
\* off
DashboardSchedules ==
    { [enabled |-> TRUE, days |-> << 1 >>], [enabled |-> TRUE, days |-> << 3 >>],
      [enabled |-> FALSE, days |-> << 1 >>] }

InitDashboard ==
    /\ asyncStorage \in
          { AppSettingsKey :> JSONstringify(DashboardSettings),
            (AppSettingsKey :> JSONstringify(DashboardSettings))
               @@ (EntriesKey(M0) :> JSONstringify(StoredDecember)) }
    /\ ServiceInit
    /\ folders = {} /\ files = << >>
    /\ StoreInit

\* the dashboard loads the settings and the months, the user answers the
\* checkbox tasks and edits the schedule of t2
NextDashboard ==
    \/ /\ pending = << >>
       /\ members = << >>
       /\ loadSettings
    \/ SettingsGetItemDone
    \/ \E month \in { M0, M1 } :
          /\ pending = << >>
          /\ entries = << >>
          /\ loadEntriesForMonth(month)
    \/ StoreGetItemDone
    \/ \E date \in DashboardDates, taskId \in {"t1", "t2"}, value \in BOOLEAN :
          /\ pending = << >>
          /\ updateTaskResponse("m1", date, "s1", taskId, value)
    \/ \E schedule \in DashboardSchedules :
          /\ pending = << >>
          /\ members # << >>
          /\ updateTask("m1", "s1", "t2", [schedule |-> schedule])
    \/ StoreSetItemDone

SpecDashboard == InitDashboard /\ [][NextDashboard]_vars

\* the days the completion chart shows, oldest first
ChartDates(days, first, today) ==
    SelectSeq([k \in 1..days |-> subDays(today, days - k)],
              LAMBDA date : DaysFromCivil(date) >= DaysFromCivil(first))

\* the SectionEntry of the section in the entry of a date, Null if none
SectionEntryOn(ents, sectionId, date) ==
    LET entry == Find(ents, LAMBDA e : e.date = date)
    IN  IF entry = Null THEN Null
        ELSE Find(entry.sectionEntries, LAMBDA se : se.sectionId = sectionId)

\* the checkbox tasks of the section that are visible on the date
ScheduledCheckboxTasks(section, date) ==
    SelectSeq(CheckboxTasks(section), LAMBDA t : isTaskVisibleOnDate(t, date))

\* C21: on every charted date that has a SectionEntry of the section and
\* at least one checkbox task scheduled, the completion percentage is
\* round(100 * c / n), with n the number of checkbox tasks of the section
\* visible on that date and c the number of those answered true.
C21_PercentageOfScheduledTasks ==
    \A dateRange \in DateRanges :
       LET section == selectedSection(members, "m1", "s1")
           all     == allEntries(entries, "m1", Today)
           first   == firstEntryDate(section, all)
           ents    == rangeEntries(entries, "m1", dateRange, first, Today)
           days    == effectiveDays(first, dateRange, Today)
           chart   == checkboxData(section, ents, days, first, Today)
       IN  chart # Null =>
              LET dates == ChartDates(days, first, Today)
              IN  /\ Len(chart.data) = Len(dates)
                  /\ \A k \in DOMAIN dates :
                        LET sectionEntry == SectionEntryOn(ents, "s1", dates[k])
                            scheduled == ScheduledCheckboxTasks(section, dates[k])
                        IN  (sectionEntry # Null /\ Len(scheduled) > 0) =>
                               chart.data[k] =
                                  MathRound(100 * CompletedCount(scheduled,
                                                                 sectionEntry),
                                            Len(scheduled))

----------------------------------------------------------------------------
(* The streak of a section *)

\* the day counts toward the streak: the section has a SectionEntry on it
\* and every checkbox task scheduled for it is answered true
DayCounts(section, all, date) ==
    LET sectionEntry == SectionEntryOn(all, section.id, date)
        scheduled == ScheduledCheckboxTasks(section, date)
    IN  /\ sectionEntry # Null
        /\ CompletedCount(scheduled, sectionEntry) = Len(scheduled)

\* the number of days in a row that count, from today backwards, 365 at
\* most
ScheduledStreak(section, all, today) ==
    LET Walk[i \in 0..365] ==
            IF i = 365 THEN 0
            ELSE IF DayCounts(section, all, subDays(today, i))
                 THEN 1 + Walk[i + 1]
                 ELSE 0
    IN  Walk[0]

\* C22: the streak of the selected section is the largest k <= 365 such
\* that each of the days today, today - 1, ..., today - (k - 1) has a
\* SectionEntry of the section in which every checkbox task scheduled for
\* that day is answered true; it is 0 when today has none.
C22_StreakOfScheduledTasks ==
    LET section == selectedSection(members, "m1", "s1")
        all     == allEntries(entries, "m1", Today)
    IN  section # Null =>
           /\ streak(section, all, Today) = ScheduledStreak(section, all, Today)
           /\ streak(section, all, Today) \in 0..365

----------------------------------------------------------------------------
(* The rewards of a month (dashboard.tsx, calculateMonthRewards) *)

\* date-fns getDaysInMonth
getDaysInMonth(date) ==
    IF date.m \in {4, 6, 9, 11} THEN 30
    ELSE IF date.m # 2 THEN 31
    ELSE IF date.y % 4 = 0 /\ (date.y % 100 # 0 \/ date.y % 400 = 0) THEN 29
    ELSE 28

\* date-fns startOfMonth and endOfMonth
startOfMonth(date) == [date EXCEPT !.d = 1]

endOfMonth(date) == [date EXCEPT !.d = getDaysInMonth(date)]

\* date-fns subMonths: the day is kept, or cut to the last day of the month
subMonths(date, amount) ==
    LET months == date.y * 12 + (date.m - 1) - amount
        first  == [y |-> months \div 12, m |-> (months % 12) + 1, d |-> 1]
    IN  [first EXCEPT !.d = IF date.d < getDaysInMonth(first)
                            THEN date.d ELSE getDaysInMonth(first)]

\* the number of true checkbox responses of the entries, for the sections
\* the member has now
CompletedCoins(member, ents) ==
    LET OfSectionEntry(sectionEntry) ==
            LET section == Find(member.sections,
                                LAMBDA s : s.id = sectionEntry.sectionId)
            IN  IF section = Null THEN 0
                ELSE CompletedCount(CheckboxTasks(section), sectionEntry)
        OfEntry(entry) ==
            LET Sum[n \in 0..Len(entry.sectionEntries)] ==
                    IF n = 0 THEN 0
                    ELSE Sum[n - 1] + OfSectionEntry(entry.sectionEntries[n])
            IN  Sum[Len(entry.sectionEntries)]
        Total[n \in 0..Len(ents)] ==
            IF n = 0 THEN 0 ELSE Total[n - 1] + OfEntry(ents[n])
    IN  Total[Len(ents)]

\* the number of checkbox tasks of all sections of the member
TotalCheckboxTasks(member) ==
    LET Sum[n \in 0..Len(member.sections)] ==
            IF n = 0 THEN 0
            ELSE Sum[n - 1] + Len(CheckboxTasks(member.sections[n]))
    IN  Sum[Len(member.sections)]

\* the rewards computed over the whole month whatever daysToCount is
calculateMonthRewardsWholeMonth(ms, map, targetMonth, daysToCount) ==
    [i \in DOMAIN ms |->
        LET ents == getEntriesForRange(map, ms[i].id, startOfMonth(targetMonth),
                                       endOfMonth(targetMonth))
        IN  [member |-> ms[i],
             completedCoins |-> CompletedCoins(ms[i], ents),
             totalPossibleCoins |->
                 TotalCheckboxTasks(ms[i]) * getDaysInMonth(targetMonth),
             entriesCount |-> Len(ents)]]

\* lines 125-168; daysToCount is << >> when the argument is left out and
\* << n >> when it is given
calculateMonthRewards(ms, map, targetMonth, daysToCount) ==
    LET daysInMonth == IF daysToCount = << >> THEN getDaysInMonth(targetMonth)
                       ELSE daysToCount[1]
        startDate == startOfMonth(targetMonth)
        endDate   == IF daysToCount # << >> /\ daysToCount[1] # 0
                     THEN targetMonth ELSE endOfMonth(targetMonth)
    IN  [i \in DOMAIN ms |->
            LET ents == getEntriesForRange(map, ms[i].id, startDate, endDate)
            IN  [member |-> ms[i],
                 completedCoins |-> CompletedCoins(ms[i], ents),
                 totalPossibleCoins |-> TotalCheckboxTasks(ms[i]) * daysInMonth,
                 entriesCount |-> Len(ents)]]

\* lines 171-177: the rewards of the month before today's
prevMonthRewardsData(ms, map, today) ==
    calculateMonthRewards(ms, map, subMonths(today, 1), << >>)

\* lines 180-187: the rewards of today's month so far
currentMonthRewardsData(ms, map, today) ==
    calculateMonthRewards(ms, map, today, << today.d >>)

\* the (entry, checkbox task of the member's configuration) pairs of the
\* days first..last whose recorded response is true
TruePairs(member, map, first, last) ==
    { pair \in (DOMAIN map) \X
               UNION { { t.id : t \in { member.sections[s].tasks[n] :
                                        n \in DOMAIN member.sections[s].tasks } }
                       : s \in DOMAIN member.sections } :
        LET entry == map[pair[1]].v
        IN  /\ entry.memberId = member.id
            /\ DaysFromCivil(entry.date) \in
                   DaysFromCivil(first)..DaysFromCivil(last)
            /\ \E s \in DOMAIN member.sections :
                  /\ \E n \in DOMAIN member.sections[s].tasks :
                        /\ member.sections[s].tasks[n].id = pair[2]
                        /\ member.sections[s].tasks[n].type = "checkbox"
                  /\ \E e \in DOMAIN entry.sectionEntries :
                        /\ entry.sectionEntries[e].sectionId = member.sections[s].id
                        /\ \E r \in DOMAIN entry.sectionEntries[e].taskResponses :
                              entry.sectionEntries[e].taskResponses[r] =
                                  [taskId |-> pair[2], value |-> TRUE] }

\* the number of checkbox tasks the member is configured with
CheckboxTaskCount(member) ==
    Cardinality({ << s, n >> \in (DOMAIN member.sections) \X (1..3) :
                     /\ n \in DOMAIN member.sections[s].tasks
                     /\ member.sections[s].tasks[n].type = "checkbox" })

\* the rewards are those of the days first..last
RewardsOfPeriod(rewards, first, last) ==
    \A i \in DOMAIN members :
       /\ rewards[i].totalPossibleCoins =
              CheckboxTaskCount(members[i])
                  * (DaysFromCivil(last) - DaysFromCivil(first) + 1)
       /\ rewards[i].completedCoins =
              Cardinality(TruePairs(members[i], entries, first, last))

\* C23: for each member, the rewards of the previous month (all its days)
\* and of the current month (the days up to today) have totalPossibleCoins =
\* the number of checkbox tasks of the member's configuration times the
\* number of days of the period, and completedCoins = the number of (entry
\* of the period, checkbox task of the configuration) pairs whose recorded
\* response is true.
C23_RewardsOfPeriod ==
    /\ RewardsOfPeriod(prevMonthRewardsData(members, entries, Today),
                       [y |-> 2024, m |-> 12, d |-> 1],
                       [y |-> 2024, m |-> 12, d |-> 31])
    /\ RewardsOfPeriod(currentMonthRewardsData(members, entries, Today),
                       [y |-> 2025, m |-> 1, d |-> 1], Today)

\* the journal of December is loaded, an answer of it was changed to false
\* and today has a true answer: 3 coins of 62 and 1 coin of 2
C23_Witness ==
    /\ members # << >>
    /\ prevMonthRewardsData(members, entries, Today)[1].completedCoins = 3
    /\ prevMonthRewardsData(members, entries, Today)[1].totalPossibleCoins = 62
    /\ currentMonthRewardsData(members, entries, Today)[1].completedCoins = 1
    /\ currentMonthRewardsData(members, entries, Today)[1].totalPossibleCoins = 2

----------------------------------------------------------------------------
(* A load of a month in flight while an entry of it is updated *)

\* the step is the end of a loadEntriesForMonth that was started before the
\* update made last: a write of that update waits behind its getItem
LoadEndsAfterUpdate ==
    /\ pending # << >>
    /\ Head(pending).op = "get"
    /\ Head(pending).key # AppSettingsKey
    /\ pending' = Tail(pending)
    /\ \E i \in 2..Len(pending) : pending[i].op = "set"

\* C28: a value recorded by updateTaskResponse or updateSectionNotes stays
\* in the store when a loadEntriesForMonth of its month that was started
\* before the update finishes after it: the load does not replace the
\* updated entry (the one stamped by the update made last) with the stored
\* version: its answers and notes are the same after the load.
C28_LoadKeepsUpdatedEntry ==
    [][LoadEndsAfterUpdate =>
          \A i \in DOMAIN entries :
             entries[i].v.lastModified = clock =>
                /\ MapGet(entries', entries[i].k) # Null
                /\ MapGet(entries', entries[i].k).sectionEntries =
                       entries[i].v.sectionEntries]_vars

----------------------------------------------------------------------------
(* isLoading of the entries store *)

\* the loadEntriesForMonth calls whose getItem has not resolved yet
LoadsInFlight ==
    { i \in DOMAIN pending :
         pending[i].op = "get" /\ pending[i].key # AppSettingsKey }

\* C29: isLoading is true in every state in which a loadEntriesForMonth is
\* still in flight, also when several months are loaded at the same time,
\* and false once every load that was started has finished.
C29_LoadingWhileInFlight ==
    isLoading = (LoadsInFlight # {})

----------------------------------------------------------------------------
(* Reminders (notificationService).  The platform calls that the service   *)
(* awaits are taken to resolve; what is scheduled is kept by identifier,   *)
(* task-<memberId>-<sectionId>-<taskId>-<day>.                              *)

\* line 72: the weekday of the weekly trigger, for a day of DayOfWeek
TriggerWeekday(day) == ((day + 1) % 7) + 1

\* lines 48-51: the days to schedule, all seven without an effective schedule
ReminderDays(task) ==
    IF /\ "schedule" \in DOMAIN task
       /\ task.schedule.enabled
       /\ Len(task.schedule.days) > 0
    THEN task.schedule.days
    ELSE << 0, 1, 2, 3, 4, 5, 6 >>

\* scheduleTaskReminder(member, section, task), lines 37-78: what is
\* scheduled afterwards, given what was scheduled before
scheduleTaskReminder(member, section, task, before) ==
    IF ~("reminder" \in DOMAIN task /\ task.reminder.enabled) THEN before
    ELSE LET days == ReminderDays(task)
             kept == { n \in before :
                         \/ n.identifier[1] # member.id
                         \/ n.identifier[2] # section.id
                         \/ n.identifier[3] # task.id }
         IN  kept \cup
             { [identifier |-> << member.id, section.id, task.id, days[i] >>,
                trigger |-> [type |-> "weekly",
                             weekday |-> TriggerWeekday(days[i]),
                             hour |-> task.reminder.hour,
                             minute |-> task.reminder.minute]] :
               i \in DOMAIN days }

\* rescheduleAllReminders(members), lines 115-137: every task notification
\* is cancelled, then the reminders of every task are scheduled
rescheduleAllReminders(ms) ==
    UNION { scheduleTaskReminder(ms[x[1]], ms[x[1]].sections[x[2]],
                                     ms[x[1]].sections[x[2]].tasks[x[3]], {}) :
                x \in { y \in (DOMAIN ms) \X (1..2) \X (1..3) :
                          /\ y[2] \in DOMAIN ms[y[1]].sections
                          /\ y[3] \in DOMAIN ms[y[1]].sections[y[2]].tasks } }

\* syncNotifications() of the settings store, lines 201-204, which addTask
\* and updateTask call without awaiting it: the members are read at the
\* call, the reminders are rescheduled from them
syncNotifications ==
    /\ members # << >>
    /\ scheduledNotifications' = rescheduleAllReminders(members)
    /\ UNCHANGED << asyncStorage, isOnline, accessToken, driveToken, appFolderId,
                    entriesFolderId, folders, files, call, ncalls, entries,
                    isLoading, currentDate, pending, clock, members,
                    lastModified, issued, unhandled, ops >>

\* TaskReminder values the task editor is given
Reminders == { [enabled |-> TRUE, hour |-> 8, minute |-> 0],
               [enabled |-> TRUE, hour |-> 20, minute |-> 30],
               [enabled |-> FALSE, hour |-> 8, minute |-> 0] }

\* the day lists the schedule editor is given for a task with a reminder
ReminderSchedules ==
    { [enabled |-> TRUE, days |-> << 0 >>],
      [enabled |-> TRUE, days |-> << 1, 3, 5 >>],
      [enabled |-> TRUE, days |-> << 6 >>],
      [enabled |-> TRUE, days |-> << >>],
      [enabled |-> FALSE, days |-> << 1 >>] }

InitReminders ==
    /\ asyncStorage = AppSettingsKey :> JSONstringify(StoredSettings)
    /\ ServiceInit
    /\ folders = {} /\ files = << >>
    /\ StoreInit

NextReminders ==
    \/ /\ pending = << >>
       /\ members = << >>
       /\ loadSettings
    \/ SettingsGetItemDone
    \/ \E schedule \in ReminderSchedules :
          /\ pending = << >>
          /\ members # << >>
          /\ updateTask("m1", "s1", "t1", [schedule |-> schedule])
    \/ \E reminder \in Reminders :
          /\ pending = << >>
          /\ members # << >>
          /\ updateTask("m1", "s1", "t1", [reminder |-> reminder])
    \/ StoreSetItemDone
    \/ syncNotifications

SpecReminders == InitReminders /\ [][NextReminders]_vars

\* C30: every weekly notification scheduled for day d of a task (0 =
\* Sunday) has the platform weekday d + 1 (1 = Sunday ... 7 = Saturday);
\* so, once the reminders are rescheduled from the configuration, a task
\* with an enabled reminder has a notification on a day of the week exactly
\* when isTaskVisibleOnDate shows the task on a date of that day, on all
\* seven days without an effective schedule.
C30_ReminderOnScheduledDays ==
    /\ \A n \in scheduledNotifications :
          n.trigger.weekday = n.identifier[4] + 1
    /\ scheduledNotifications = rescheduleAllReminders(members) =>
          \A task \in ConfiguredTasks, date \in WeekDates :
             ("reminder" \in DOMAIN task /\ task.reminder.enabled) =>
                (isTaskVisibleOnDate(task, date) <=>
                    \E n \in scheduledNotifications :
                       /\ n.identifier[3] = task.id
                       /\ n.trigger.weekday = JanuaryWeekday(date) + 1)

----------------------------------------------------------------------------
(* Write path of the StorageService *)

Settled(c) == c.pc = "done"
Returned(c) == Settled(c) /\ c.result.st = "returned"
Threw(c) == Settled(c) /\ c.result.st = "threw"

\* C1: in online mode a saveSettings / saveMonthlyEntries whose remote write
\* failed returns normally, and the local key (app_settings or
\* entries_<month>) holds exactly the value that was passed to it.
C1_SaveSurvivesRemoteFailure ==
    (Settled(call) /\ IsSave(call) /\ call.online0 /\ call.rfail) =>
        /\ call.result.st = "returned"
        /\ call.key \in DOMAIN asyncStorage
        /\ CanParse(asyncStorage[call.key])
        /\ JSONparse(asyncStorage[call.key]) = call.arg

\* a saveMonthlyEntries in online mode has settled after its remote write failed
C1_Witness ==
    /\ Settled(call) /\ call.kind = "saveMonthlyEntries"
    /\ call.online0 /\ call.rfail /\ call.rsent

\* C2: in every execution of saveSettings / saveMonthlyEntries the local
\* write has completed before a GoogleDriveService method is called or a
\* request is sent; when the local write fails the call throws and nothing
\* remote was attempted.
C2_LocalBeforeRemote ==
    IsSave(call) =>
        /\ (call.remote \/ call.rsent \/ call.pc \in RequestPcs) => call.wrote
        /\ call.wrote => call.key \in call.written
        /\ call.lfail => Threw(call) /\ ~call.remote /\ ~call.rsent /\ ~call.wrote

\* a save has sent its upload to Drive, after its local write
C2_Witness ==
    /\ IsSave(call) /\ call.pc = "upload" /\ call.cred # NullToken /\ call.wrote

----------------------------------------------------------------------------
(* Read path of the StorageService *)

\* what a load returns from the local cache: the parsed item, null without one
LocalValue(key) ==
    IF key \in DOMAIN asyncStorage THEN JSONparse(asyncStorage[key]) ELSE Null

C4_FallbackToLocal ==
    (Settled(call) /\ IsLoad(call)
       /\ (~call.online0 \/ call.rfail \/ call.nofile)) =>
        /\ call.result = [st |-> "returned", val |-> LocalValue(call.key)]
        /\ (call.result.val = Null <=> call.key \notin DOMAIN asyncStorage)
        /\ call.written = {}

\* an online loadMonthlyEntries whose Drive read failed returned the local value
C4_Witness ==
    /\ Settled(call) /\ call.kind = "loadMonthlyEntries"
    /\ call.online0 /\ call.rfail
    /\ call.key \in DOMAIN asyncStorage
    /\ call.result.val = JSONparse(asyncStorage[call.key])

\* C24: in online mode, when the remote file of a loadSettings /
\* loadMonthlyEntries exists and its content is not parseable, the call
\* does not throw, writes nothing to the local cache, and returns the value
\* of the local key, null when the key does not exist.
C24_MalformedRemoteIsAbsent ==
    (Settled(call) /\ IsLoad(call) /\ call.online0 /\ call.garbled) =>
        /\ call.result = [st |-> "returned", val |-> LocalValue(call.key)]
        /\ (call.result.val = Null <=> call.key \notin DOMAIN asyncStorage)
        /\ call.written = {}
        /\ ~call.lfail

\* an online loadSettings downloaded text that is not JSON and returned the
\* settings of the local cache
C24_Witness ==
    /\ Settled(call) /\ call.kind = "loadSettings"
    /\ call.online0 /\ call.garbled /\ ~call.rfail /\ ~call.nofile
    /\ AppSettingsKey \in DOMAIN asyncStorage
    /\ call.result = [st |-> "returned",
                      val |-> JSONparse(asyncStorage[AppSettingsKey])]

----------------------------------------------------------------------------
(* Full resynchronisation *)

IsSync(c) == c.kind \in {"syncToCloud", "syncFromCloud"}

\* the units syncToCloud has to push: app_settings and every entries_<month>
LocalUnits ==
    { k \in DOMAIN asyncStorage : k = AppSettingsKey \/ StartsWithEntries(k) }

\* the statement of C7 as the specification words it: an online syncToCloud
\* starts a Drive save for every local unit, also after a unit failed, and
\* throws when a unit failed.
C7_AttemptsEveryUnit ==
    (Settled(call) /\ call.kind = "syncToCloud" /\ call.online0) =>
        /\ LocalUnits \subseteq call.tried
        /\ call.rfail => Threw(call)

\* C7 (amended): an online syncToCloud pushes the settings unit and then the
\* entries_<month> units one after the other and stops at the first Drive
\* save that fails: it throws at once, the units after the failed one are
\* not attempted; when it returns, every local unit was pushed.
C7_StopsAtFirstFailure ==
    (call.kind = "syncToCloud" /\ call.online0) =>
        /\ call.rfail => Threw(call)
        /\ Threw(call) => call.rfail
        /\ Returned(call) => LocalUnits \subseteq call.tried
        /\ call.written = {}

\* a syncToCloud threw after a failed unit, leaving a local unit unattempted
C7_Witness ==
    /\ Threw(call) /\ call.kind = "syncToCloud" /\ call.rfail
    /\ call.tried # {}
    /\ LocalUnits \ call.tried # {}

\* the files of the entries folder the Drive memo points at
EntriesFiles == { id \in DOMAIN files : id.parent = entriesFolderId }

\* a file name of the form <yyyy-MM>.json
IsMonthFileName(name) ==
    /\ Len(name) = 2
    /\ MatchesMonthPattern(<< name[1] >>)
    /\ name[2] = Lit(".json")

\* an online syncFromCloud returned and none of its requests failed
PulledAll ==
    /\ Returned(call) /\ call.kind = "syncFromCloud" /\ call.online0
    /\ ~call.rfail /\ entriesFolderId # Null

C9_ResyncFailureSurfaces ==
    (Settled(call) /\ IsSync(call) /\ call.online0 /\ call.rfail) => Threw(call)

\* C25: a saveSettings, saveMonthlyEntries, loadSettings,
\* loadMonthlyEntries, syncToCloud or syncFromCloud call in which Drive
\* rejected the credential ends with an error that reaches the caller; it
\* does not end the way a call ends whose remote was merely unavailable
\* (returning normally after a save, returning the local value after a load).
C25_AuthFailureSurfaces ==
    (Settled(call) /\ call.online0 /\ call.unauth) => Threw(call)

----------------------------------------------------------------------------
(* Modes *)

\* a call that read isOnline as false has sent no request to Drive and
\* called no GoogleDriveService method; a syncToCloud / syncFromCloud of
\* that kind has written no AsyncStorage key
OfflineIsLocal ==
    (call.kind # "idle" /\ ~call.online0) =>
        /\ ~call.rsent /\ ~call.remote /\ call.pc \notin RequestPcs
        /\ IsSync(call) => Returned(call) /\ call.written = {} /\ ~call.lfail

\* the statement of C26 as the specification words it: the service is
\* online iff the last token passed to setOnlineMode was not null.
C26_OnlineIffTokenNotNull ==
    /\ isOnline = (accessToken # NullToken)
    /\ driveToken = accessToken
    /\ OfflineIsLocal

\* C26 (amended): after any sequence of setOnlineMode calls the service is
\* online iff the last token passed was neither null nor the empty string,
\* and GoogleDriveService holds that same token; a call made in offline mode
\* sends no request to Drive, and syncToCloud / syncFromCloud in offline
\* mode return without writing to AsyncStorage.
C26_OnlineIffTokenTruthy ==
    /\ isOnline = (accessToken \notin {NullToken, EmptyToken})
    /\ driveToken = accessToken
    /\ OfflineIsLocal

\* after an online call created remote files, setOnlineMode(null) was
\* called and a syncFromCloud returned without touching the local cache
C26_Witness ==
    /\ Returned(call) /\ call.kind = "syncFromCloud" /\ ~call.online0
    /\ accessToken = NullToken /\ driveToken = NullToken
    /\ call.written = {} /\ ~call.rsent
    /\ \E id \in DOMAIN files : files[id] = JSONstringify(Settings(1))

----------------------------------------------------------------------------
(* Folder memo and credentials *)

\* the folders of the name under the parent that the account has on Drive
FoldersNamed(name) ==
    { f \in folders : f.acct = "t1" /\ f.name = name }

\* C27: under one credential, whatever the interleaving of the operations
\* that resolve the folders at the same time, Drive ends up with at most
\* one folder 'OurJournal' and at most one folder 'entries', and all
\* operations of a kind get the same folder id.
C27_FolderResolutionIdempotent ==
    /\ Cardinality(FoldersNamed(APP_FOLDER_NAME)) <= 1
    /\ Cardinality(FoldersNamed(ENTRIES_FOLDER_NAME)) <= 1
    /\ \A i, j \in DOMAIN ops :
          (ops[i].pc = "done" /\ ops[j].pc = "done"
             /\ ops[i].scope = ops[j].scope) => ops[i].id = ops[j].id


\* the folder id a pending request names, Null when it names none
RequestFolder(c) ==
    CASE c.pc \in {"entSearch", "entCreate"} -> c.appf
      [] c.pc \in {"findFile", "upload", "list"} -> c.folder
      [] c.pc = "download" -> c.fileId.parent
      [] OTHER -> Null

\* C10: in every reachable state a memoized appFolderId / entriesFolderId
\* was resolved under the current credential, and no request sent with
\* credential C names a folder id that was resolved under another credential.
C10_NoStaleFolderHandle ==
    /\ appFolderId # Null => appFolderId.acct = driveToken
    /\ entriesFolderId # Null => entriesFolderId.acct = driveToken
    /\ (call.cred # NullToken /\ RequestFolder(call) # Null) =>
           RequestFolder(call).acct = call.cred

====
